---------------------------- MODULE Spec2Model ----------------------------
(***************************************************************************)
(* A model of py-slippi-stats: the replay decoder (slippistats/parse.py),  *)
(* the frame-sequential classifiers and the batch run (slippistats/stats). *)
(*                                                                         *)
(* Each subsystem has its own variables, its own Init and its own          *)
(* specification; a specification leaves the other subsystems idle.        *)
(* Python's None is modelled by a sentinel of the field's own type.        *)
(***************************************************************************)
EXTENDS Integers, Sequences, FiniteSets, TLC

VARIABLES
    \* TakeHitData (stat_types.py): the SDI extraction over one hit's history
    stick_regions_during_hitlag, sdi_inputs, sdi_i,
    \* StatsComputer.dash_compute
    dash_frames, dash_i, dash_state, dashes, dash_pc,
    \* ComboComputer.combo_compute
    combo_n, combo_last, combo_prev, combo_i, combo_checks,
    combo_state, combo_objs, player_combos, combo_pc,
    \* StatsComputer.l_cancel_compute
    lc_n, lc_last_held, lc_prev_held, lc_i, trigger_input_frame, during_hitlag,
    lc_built, l_cancels, lc_pc, lc_error,
    \* parse (parse.py)
    dec_length, dec_skip_frames, dec_path, dec_source, dec_pos, dec_loop,
    dec_reads, dec_calls, dec_pc, dec_error,
    \* _parse_event_payloads (parse.py)
    tbl_code, tbl_this_size, tbl_i, tbl_read, sizes, tbl_log, tbl_pc, tbl_error,
    \* the entry points of the classifiers (combo_computer.py, stats_computer.py)
    ent_fn, ent_connect_code, ent_player, ent_version, ent_checks, ent_warnings, ent_frames_read, ent_appended, ent_pc, ent_error,
    \* StatsComputer.take_hit_compute
    th_version, th_knockback_check, th_frames, th_i, take_hit_state, take_hits, th_warnings, th_pc, th_error,
    \* get_stats (stats_computer.py)
    batch_files, futures, completed, batch_handled, batch_count, dfs, batch_printed, batch_pc, batch_error,
    \* StatsComputer.tech_compute
    tech_n, tech_last, tech_prev, tech_i, tech_state, techs, tech_pc, tech_error,
    \* StatsComputer.wavedash_compute
    wd_frames, wd_i, wavedash_state, wavedashes, wd_pc, wd_error

sdiVars == <<stick_regions_during_hitlag, sdi_inputs, sdi_i>>
dashVars == <<dash_frames, dash_i, dash_state, dashes, dash_pc>>
comboVars == <<combo_n, combo_last, combo_prev, combo_i, combo_checks,
               combo_state, combo_objs, player_combos, combo_pc>>
lcVars == <<lc_n, lc_last_held, lc_prev_held, lc_i, trigger_input_frame, during_hitlag,
            lc_built, l_cancels, lc_pc, lc_error>>
decVars == <<dec_length, dec_skip_frames, dec_path, dec_source, dec_pos, dec_loop,
             dec_reads, dec_calls, dec_pc, dec_error>>
tblVars == <<tbl_code, tbl_this_size, tbl_i, tbl_read, sizes, tbl_log, tbl_pc, tbl_error>>
entVars == <<ent_fn, ent_connect_code, ent_player, ent_version, ent_checks, ent_warnings, ent_frames_read, ent_appended, ent_pc, ent_error>>
thVars == <<th_version, th_knockback_check, th_frames, th_i, take_hit_state, take_hits, th_warnings, th_pc, th_error>>
batchVars == <<batch_files, futures, completed, batch_handled, batch_count, dfs, batch_printed, batch_pc, batch_error>>
techVars == <<tech_n, tech_last, tech_prev, tech_i, tech_state, techs, tech_pc, tech_error>>
wdVars == <<wd_frames, wd_i, wavedash_state, wavedashes, wd_pc, wd_error>>
vars == <<sdiVars, dashVars, comboVars, lcVars, decVars, tblVars, entVars, thVars, batchVars, techVars, wdVars>>

\* What an action of one subsystem leaves alone.
sdiOthers == <<dashVars, comboVars, lcVars, decVars, tblVars, entVars, thVars, batchVars, techVars, wdVars>>
dashOthers == <<sdiVars, comboVars, lcVars, decVars, tblVars, entVars, thVars, batchVars, techVars, wdVars>>
comboOthers == <<sdiVars, dashVars, lcVars, decVars, tblVars, entVars, thVars, batchVars, techVars, wdVars>>
lcOthers == <<sdiVars, dashVars, comboVars, decVars, tblVars, entVars, thVars, batchVars, techVars, wdVars>>
decOthers == <<sdiVars, dashVars, comboVars, lcVars, tblVars, entVars, thVars, batchVars, techVars, wdVars>>
tblOthers == <<sdiVars, dashVars, comboVars, lcVars, decVars, entVars, thVars, batchVars, techVars, wdVars>>
entOthers == <<sdiVars, dashVars, comboVars, lcVars, decVars, tblVars, thVars, batchVars, techVars, wdVars>>
thOthers == <<sdiVars, dashVars, comboVars, lcVars, decVars, tblVars, entVars, batchVars, techVars, wdVars>>
batchOthers == <<sdiVars, dashVars, comboVars, lcVars, decVars, tblVars, entVars, thVars, techVars, wdVars>>
techOthers == <<sdiVars, dashVars, comboVars, lcVars, decVars, tblVars, entVars, thVars, batchVars, wdVars>>
wdOthers == <<sdiVars, dashVars, comboVars, lcVars, decVars, tblVars, entVars, thVars, batchVars, techVars>>

Abs(x) == IF x < 0 THEN -x ELSE x

(***************************************************************************)
(* Python list indexing: a negative index counts from the end of the list. *)
(* PyIdx gives the 0-based position that frames[k] reads in a list of n.   *)
(***************************************************************************)
PyIdx(k, n) == IF k < 0 THEN k + n ELSE k

\* ------------------------------------------------------------------------
\* JoystickRegion (stats/common.py): the dead zone and the 8 directional
\* regions, numbered consecutively around the circle from UP.
DEAD_ZONE == -1
UP == 0
UP_RIGHT == 1
RIGHT == 2
DOWN_RIGHT == 3
DOWN == 4
DOWN_LEFT == 5
LEFT == 6
UP_LEFT == 7
JoystickRegion == {DEAD_ZONE, UP, UP_RIGHT, RIGHT, DOWN_RIGHT, DOWN, DOWN_LEFT, LEFT, UP_LEFT}

\* Longest joystick-region history of one hitlag window that is explored.
MaxHitlag == 4

\* All sequences over S of length 0..n.
SeqsUpTo(S, n) == UNION {[1..k -> S] : k \in 0..n}

\* ------------------------------------------------------------------------
\* SdiCounts without the same-region test of lines 247-248.
SdiCountsNoSameRegionSkip(regions, i) ==
    LET stick_region == regions[i + 1]
    IN  /\ ~(i = 0 \/ stick_region = DEAD_ZONE)
        /\ LET prev_stick_region == regions[i]
           IN  \/ prev_stick_region = DEAD_ZONE
               \/ prev_stick_region % 2 = 0
               \/ (prev_stick_region % 2 = 1 /\ stick_region % 2 = 1)
               \/ (prev_stick_region % 2 = 1
                     /\ 3 <= Abs(stick_region - prev_stick_region)
                     /\ Abs(stick_region - prev_stick_region) < 7)

\* SdiCounts without the first-sample skip of line 241 and the tests on the
\* kind of region change.
SdiCountsNoFirstSkip(regions, i) ==
    LET stick_region == regions[i + 1]
    IN  /\ stick_region # DEAD_ZONE
        /\ (i = 0 \/ stick_region # regions[i])

\* SdiCounts with the distance test of line 269 admitting a difference of 7,
\* the one between UP_LEFT and UP.
SdiCountsAcrossWrap(regions, i) ==
    LET stick_region == regions[i + 1]
    IN  /\ ~(i = 0 \/ stick_region = DEAD_ZONE)
        /\ LET prev_stick_region == regions[i]
           IN  /\ stick_region # prev_stick_region
               /\ \/ prev_stick_region = DEAD_ZONE
                  \/ prev_stick_region % 2 = 0
                  \/ stick_region % 2 = 1
                  \/ 3 <= Abs(stick_region - prev_stick_region)

\* TakeHitData._find_valid_sdi (lines 237-272): whether the loop iteration at
\* 0-based index i of the history appends regions[i] to sdi_inputs.
SdiCounts(regions, i) ==
    LET stick_region == regions[i + 1]
    IN  IF i = 0 \/ stick_region = DEAD_ZONE THEN FALSE
        ELSE LET prev_stick_region == regions[i]
             IN  IF stick_region = prev_stick_region THEN FALSE
                 ELSE IF prev_stick_region = DEAD_ZONE THEN TRUE
                 ELSE IF prev_stick_region % 2 = 0 THEN TRUE
                 ELSE IF stick_region % 2 = 1 THEN TRUE
                 ELSE /\ 3 <= Abs(stick_region - prev_stick_region)
                      /\ Abs(stick_region - prev_stick_region) < 7

\* One iteration of the loop of _find_valid_sdi.
FindValidSdiStep ==
    /\ sdi_i < Len(stick_regions_during_hitlag)
    /\ sdi_inputs' = IF SdiCounts(stick_regions_during_hitlag, sdi_i)
                     THEN Append(sdi_inputs, stick_regions_during_hitlag[sdi_i + 1])
                     ELSE sdi_inputs
    /\ sdi_i' = sdi_i + 1
    /\ UNCHANGED stick_regions_during_hitlag
    /\ UNCHANGED sdiOthers

SdiDone == sdi_i = Len(stick_regions_during_hitlag)

SdiIdle ==
    /\ stick_regions_during_hitlag = << >>
    /\ sdi_inputs = << >>
    /\ sdi_i = 0

\* ------------------------------------------------------------------------
\* ActionState ids (enums/state.py) used by the classifiers.
WAIT == 14
TURN == 18
DASH == 20

\* A reference that holds None.
NoneRec == [none |-> TRUE]

\* common.just_entered_state / just_exited_state: edge detectors on the
\* post-frame action state.
just_entered_state(action_state, curr, prev) == curr = action_state /\ prev # action_state
just_exited_state(action_state, curr, prev) == curr # action_state /\ prev = action_state

\* Number of frames of the game the dash detector walks.
DashLen == 13
DashStates == {WAIT, TURN, DASH}

\* player.frames[k].post.state, with Python's negative indexing.
DashFrameState(k) == dash_frames[PyIdx(k, Len(dash_frames)) + 1]

\* dash_compute, line 189: the two-prior/one-prior states of a dashdance.
IsDashdance(prev_player_state, prev_prev_player_state) ==
    prev_player_state = TURN /\ prev_prev_player_state = DASH

\* MarkLastDash leaving the earlier dash as it is.
MarkLastDashNot(ds) == ds

\* dash_compute, line 192: player.stats.dashes[-1].is_dashdance = True
MarkLastDash(ds) == [ds EXCEPT ![Len(ds)].is_dashdance = TRUE]

\* One iteration of the loop of dash_compute (lines 168-198); the pass
\* returns after the last frame, and ends early when a statement raises:
\*   line 192 raises IndexError when no dash has been recorded yet,
\*   line 196 raises AttributeError when dash_state is None.
DashComputeStep ==
    /\ dash_pc = "run"
    /\ dash_i < Len(dash_frames)
    /\ LET i == dash_i
           player_state == DashFrameState(i)
           prev_player_state == DashFrameState(i - 1)
           prev_prev_player_state == DashFrameState(i - 2)
           entered == just_entered_state(DASH, player_state, prev_player_state)
           exited == just_exited_state(DASH, player_state, prev_player_state)
           pattern == entered /\ IsDashdance(prev_player_state, prev_prev_player_state)
           raisesIndexError == pattern /\ dashes = << >>
           state1 == IF entered
                     THEN [frame_index |-> i, is_dashdance |-> pattern]
                     ELSE dash_state
           dashes1 == IF pattern /\ dashes # << >> THEN MarkLastDash(dashes) ELSE dashes
           raisesAttributeError == ~raisesIndexError /\ exited /\ state1 = NoneRec
       IN  IF raisesIndexError \/ raisesAttributeError
           THEN /\ dash_pc' = "raised"
                /\ dash_state' = state1
                /\ dashes' = dashes1
                /\ UNCHANGED dash_i
           ELSE /\ dash_state' = IF exited THEN NoneRec ELSE state1
                /\ dashes' = IF exited THEN Append(dashes1, state1) ELSE dashes1
                /\ dash_i' = i + 1
                /\ dash_pc' = IF i + 1 = Len(dash_frames) THEN "returned" ELSE "run"
    /\ UNCHANGED dash_frames
    /\ UNCHANGED dashOthers

DashIdle ==
    /\ dash_frames = << >>
    /\ dash_i = 0
    /\ dash_state = NoneRec
    /\ dashes = << >>
    /\ dash_pc = "idle"

\* ------------------------------------------------------------------------
\* ComboComputer (stats/combo_computer.py)
COMBO_LENIENCY == 45
\* The literal of lines 197, 210 and 300: array index -> game frame index.
ComboBackdate == 123

\* ActionState ids and ActionRange bounds (enums/state.py).
ATTACK_11 == 44
DAMAGE_HI_1 == 75
LAND_FALL_SPECIAL == 43
ESCAPE_AIR == 236
BARREL_WAIT == 293
DAMAGE_START == 75
DAMAGE_END == 91
CAPTURE_START == 223
CAPTURE_END == 232
GUARD_START == 178
GUARD_END == 182
GUARD_BREAK_START == 205
GUARD_BREAK_END == 211
LEDGE_ACTION_START == 252
LEDGE_ACTION_END == 263
DOWN_START == 183
DOWN_END == 198
TECH_START == 199
TECH_END == 204
DODGE_START == 233
DODGE_END == 236
DYING_START == 0
DYING_END == 10
FALL_SPECIAL_START == 35
FALL_SPECIAL_END == 37
COMMAND_GRAB_RANGE1_START == 266
COMMAND_GRAB_RANGE1_END == 304
COMMAND_GRAB_RANGE2_START == 327
COMMAND_GRAB_RANGE2_END == 338

\* None, for a field that otherwise holds an action state id (>= 0).
NoState == -1
\* None, for a reference to a ComboData object (object ids start at 1).
NoCombo == 0

\* The opponent-state checks of stats/common.py.  Those that read the action
\* state are range tests against ActionRange; those that read the bitflags,
\* the position or neighbouring frames are taken from the frame record, which
\* carries their result (hitstun, hitlag, offstage, juggled, wavedashing).
is_damaged(action_state) == DAMAGE_START <= action_state /\ action_state <= DAMAGE_END
is_grabbed(action_state) == CAPTURE_START <= action_state /\ action_state <= CAPTURE_END
is_cmd_grabbed(action_state) ==
    /\ \/ (COMMAND_GRAB_RANGE1_START <= action_state /\ action_state <= COMMAND_GRAB_RANGE1_END)
       \/ (COMMAND_GRAB_RANGE2_START <= action_state /\ action_state <= COMMAND_GRAB_RANGE2_END)
    /\ action_state # BARREL_WAIT
is_teching(action_state) == TECH_START <= action_state /\ action_state <= TECH_END
is_downed(action_state) == DOWN_START <= action_state /\ action_state <= DOWN_END
is_dying(action_state) == DYING_START <= action_state /\ action_state <= DYING_END
is_dodging(action_state) == DODGE_START <= action_state /\ action_state <= DODGE_END
is_shielding(action_state) == GUARD_START <= action_state /\ action_state <= GUARD_END
is_shield_broken(action_state) == GUARD_BREAK_START <= action_state /\ action_state <= GUARD_BREAK_END
is_ledge_action(action_state) == LEDGE_ACTION_START <= action_state /\ action_state <= LEDGE_ACTION_END
is_special_fall(action_state) == FALL_SPECIAL_START <= action_state /\ action_state <= FALL_SPECIAL_END
is_upb_lag(action_state, prev_state) ==
    /\ action_state = LAND_FALL_SPECIAL
    /\ prev_state # LAND_FALL_SPECIAL
    /\ prev_state # ESCAPE_AIR
is_in_hitstun(post) == post.hitstun
is_in_hitlag(post) == post.hitlag
is_offstage(post) == post.offstage
is_maybe_juggled(post) == post.juggled
is_wavedashing(post) == post.wavedashing
calc_damage_taken(post, prev_post) == post.percent - prev_post.percent
DidLoseStockNever(post, prev_post) == FALSE
did_lose_stock(post, prev_post) == prev_post.stocks_remaining - post.stocks_remaining > 0
get_death_direction(action_state) == action_state

\* ComboData() and MoveLanded() with the dataclass defaults (lines 50-76).
DefaultComboData ==
    [moves |-> << >>, did_kill |-> FALSE, death_direction |-> NoState,
     player_stocks |-> 4, opponent_stocks |-> 4, did_end_game |-> FALSE,
     start_percent |-> 0, current_percent |-> 0, end_percent |-> 0,
     start_frame |-> 0, end_frame |-> 0]

DefaultMoveLanded == [frame_index |-> 0, hit_count |-> 0, damage |-> 0]

\* ComboData.total_damage (line 83)
total_damage(combo) == combo.end_percent - combo.start_percent

\* ComboState() (lines 94-101): the dataclass defaults.  combo and move are
\* built by default_factory, so a new ComboState refers to a ComboData and a
\* MoveLanded that no list holds.  combo is the id of a ComboData object in
\* combo_objs; move is "none" (None), "default" (the MoveLanded of the
\* default_factory, kept in default_move) or "open" (the last element of the
\* moves of the combo referred to).
InitialComboState ==
    [combo |-> 1, move |-> "default", default_move |-> DefaultMoveLanded,
     reset_counter |-> 0, last_hit_animation |-> NoState]

\* The ComboData objects that exist when combo_state is a new ComboState().
InitialComboObjs == <<DefaultComboData>>

\* combo_compute's keyword arguments (lines 140-148), all defaulting to True.
DefaultChecks ==
    [hitstun_check |-> TRUE, hitlag_check |-> TRUE, tech_check |-> TRUE,
     downed_check |-> TRUE, offstage_check |-> TRUE, dodge_check |-> TRUE,
     shield_check |-> TRUE, shield_break_check |-> TRUE, ledge_check |-> TRUE]

\* Line 191: the conditions under which a combo starts and a move is counted.
ComboHitCondition(post, checks) ==
    \/ is_damaged(post.state)
    \/ is_grabbed(post.state)
    \/ is_cmd_grabbed(post.state)
    \/ (is_in_hitstun(post) /\ checks.hitstun_check)

\* ComboResetCondition holding on no frame.
ComboResetNever(post, prev_post, checks) == FALSE

\* Lines 260-280: the conditions that reset the timeout counter.
ComboResetCondition(post, prev_post, checks) ==
    \/ is_damaged(post.state)
    \/ is_grabbed(post.state)
    \/ is_cmd_grabbed(post.state)
    \/ (is_in_hitlag(post) /\ checks.hitlag_check)
    \/ (is_in_hitstun(post) /\ checks.hitstun_check)
    \/ (is_shielding(post.state) /\ checks.shield_check)
    \/ (is_offstage(post) /\ checks.offstage_check)
    \/ (is_dodging(post.state) /\ checks.dodge_check /\ ~is_wavedashing(post))
    \/ is_dying(post.state)
    \/ (is_downed(post.state) /\ checks.downed_check)
    \/ (is_teching(post.state) /\ checks.tech_check)
    \/ (is_ledge_action(post.state) /\ checks.ledge_check)
    \/ (is_shield_broken(post.state) /\ checks.shield_break_check)
    \/ is_maybe_juggled(post)
    \/ is_special_fall(post.state)
    \/ is_upb_lag(post.state, prev_post.state)

\* Lines 194-201: the ComboData of a combo that starts at array index i.
NewComboData(i, player_post, opponent_post, prev_opponent_post) ==
    [DefaultComboData EXCEPT
        !.player_stocks = player_post.stocks_remaining,
        !.opponent_stocks = opponent_post.stocks_remaining,
        !.start_frame = i - ComboBackdate,
        !.start_percent = prev_opponent_post.percent,
        !.current_percent = opponent_post.percent,
        !.end_percent = opponent_post.percent]

\* A termination that writes no field of the combo.
FinalizeNothing(combo, i, prev_opponent_post) == combo

\* Lines 299-301: the fields written when the combo ends at array index i.
FinalizeCombo(combo, i, prev_opponent_post) ==
    [combo EXCEPT !.end_frame = i - ComboBackdate,
                  !.end_percent = prev_opponent_post.percent]

\* The body of the loop of combo_compute (lines 160-303) for the frame pair
\* (player_post, opponent_post) at array index combo_i.  The previous pair is
\* frames[i - 1]: for i = 0 Python reads frames[-1], the last frame of the
\* game (combo_last), which the last iteration must therefore be given.
ComboFrame(player_post, opponent_post) ==
    /\ combo_pc = "run"
    /\ combo_i < combo_n
    /\ (combo_i = combo_n - 1) => (player_post = combo_last.p /\ opponent_post = combo_last.o)
    /\ LET i == combo_i
           cs == combo_state
           checks == combo_checks
           prev_player_post == combo_prev.p
           prev_opponent_post == combo_prev.o
           opnt_damage_taken == calc_damage_taken(opponent_post, prev_opponent_post)
           \* lines 181-186
           action_changed_since_hit == player_post.state # cs.last_hit_animation
           action_state_reset == player_post.state_age < prev_player_post.state_age
           lha1 == IF action_changed_since_hit \/ action_state_reset
                   THEN NoState ELSE cs.last_hit_animation
           \* lines 191-203
           hit == ComboHitCondition(opponent_post, checks)
           starts == hit /\ cs.combo = NoCombo
           objs1 == IF starts
                    THEN Append(combo_objs,
                                NewComboData(i, player_post, opponent_post, prev_opponent_post))
                    ELSE combo_objs
           list1 == IF starts THEN Append(player_combos, Len(objs1)) ELSE player_combos
           combo1 == IF starts THEN Len(objs1) ELSE cs.combo
           \* lines 207-221
           counted == hit /\ opnt_damage_taken # 0
           opens == counted /\ lha1 = NoState
           objs2 == IF opens
                    THEN [objs1 EXCEPT ![combo1].moves =
                              Append(@, [DefaultMoveLanded EXCEPT !.frame_index = i - ComboBackdate])]
                    ELSE objs1
           move2 == IF opens THEN "open" ELSE cs.move
           objs3 == IF counted /\ move2 = "open"
                    THEN [objs2 EXCEPT ![combo1].moves[Len(objs2[combo1].moves)] =
                              [@ EXCEPT !.hit_count = @ + 1,
                                        !.damage = @ + opnt_damage_taken]]
                    ELSE objs2
           default3 == IF counted /\ move2 = "default"
                       THEN [cs.default_move EXCEPT !.hit_count = @ + 1,
                                                    !.damage = @ + opnt_damage_taken]
                       ELSE cs.default_move
           lha2 == IF counted THEN prev_player_post.state ELSE lha1
           \* lines 240-254
           opnt_did_lose_stock == did_lose_stock(opponent_post, prev_opponent_post)
           player_did_lose_stock == did_lose_stock(player_post, prev_player_post)
           objs4 == IF ~opnt_did_lose_stock
                    THEN [objs3 EXCEPT ![combo1].current_percent = opponent_post.percent]
                    ELSE objs3
           \* lines 260-280
           counter == IF ComboResetCondition(opponent_post, prev_opponent_post, checks)
                      THEN 0 ELSE cs.reset_counter + 1
           \* lines 285-296
           objs5 == IF is_dying(opponent_post.state)
                    THEN [objs4 EXCEPT ![combo1].death_direction =
                              get_death_direction(opponent_post.state)]
                    ELSE objs4
           objs6 == IF opnt_did_lose_stock
                    THEN [objs5 EXCEPT ![combo1].did_kill = TRUE,
                                       ![combo1].did_end_game =
                                           IF opponent_post.stocks_remaining = 0 THEN TRUE ELSE @]
                    ELSE objs5
           should_terminate ==
               opnt_did_lose_stock \/ counter > COMBO_LENIENCY \/ player_did_lose_stock
       IN  IF combo1 = NoCombo
           THEN \* line 224: no combo is active
                /\ combo_state' = [cs EXCEPT !.last_hit_animation = lha2]
                /\ UNCHANGED <<combo_objs, player_combos>>
           ELSE /\ combo_objs' = IF should_terminate
                                 THEN [objs6 EXCEPT ![combo1] =
                                           FinalizeCombo(@, i, prev_opponent_post)]
                                 ELSE objs6
                /\ player_combos' = list1
                /\ combo_state' =
                       [combo |-> IF should_terminate THEN NoCombo ELSE combo1,
                        move |-> IF should_terminate THEN "none" ELSE move2,
                        default_move |-> default3,
                        reset_counter |-> counter,
                        last_hit_animation |-> lha2]
    /\ combo_prev' = [p |-> player_post, o |-> opponent_post]
    /\ combo_i' = combo_i + 1
    /\ combo_pc' = IF combo_i + 1 = combo_n THEN "returned" ELSE "run"
    /\ UNCHANGED <<combo_n, combo_last, combo_checks>>
    /\ UNCHANGED comboOthers

\* The list combo_compute returns: player.combos, by value.
Combos == [k \in 1..Len(player_combos) |-> combo_objs[player_combos[k]]]

\* A frame pair built from the fields the combo detector reads.
PlayerPost(state, state_age, stocks) ==
    [state |-> state, state_age |-> state_age, stocks_remaining |-> stocks]

OpponentPost(state, hitstun, percent, stocks) ==
    [state |-> state, hitstun |-> hitstun, hitlag |-> FALSE, offstage |-> FALSE,
     juggled |-> FALSE, wavedashing |-> FALSE,
     percent |-> percent, stocks_remaining |-> stocks]

ComboIdle ==
    /\ combo_n = 0
    /\ combo_last = NoneRec
    /\ combo_prev = NoneRec
    /\ combo_i = 0
    /\ combo_checks = DefaultChecks
    /\ combo_state = InitialComboState
    /\ combo_objs = InitialComboObjs
    /\ player_combos = << >>
    /\ combo_pc = "idle"

\* A fresh ComboComputer (__init__, lines 112-118) about to walk a game of n
\* frames whose last frame pair is `last`; the player's combo list is empty.
ComboStart(n, last) ==
    /\ combo_n = n
    /\ combo_last = last
    /\ combo_prev = last
    /\ combo_i = 0
    /\ combo_checks = DefaultChecks
    /\ combo_state = InitialComboState
    /\ combo_objs = InitialComboObjs
    /\ player_combos = << >>
    /\ combo_pc = "run"

\* ------------------------------------------------------------------------
\* StatsComputer.l_cancel_compute (stats/stats_computer.py)

\* LCancel (enums/state.py): the post-frame L-cancel status.
NOT_APPLICABLE == 0
SUCCESS == 1
FAILURE == 2

\* The local variable trigger_input_frame: not yet assigned, None, or an int.
TriggerUnbound == [kind |-> "unbound", v |-> 0]
TriggerNone == [kind |-> "none", v |-> 0]
TriggerInt(x) == [kind |-> "int", v |-> x]

\* just_input_l_cancel (stats/common.py): an L, R or Z press that was not
\* held on the frame before.  A frame carries `held`, whether one is down.
just_input_l_cancel(held, prev_held) == held /\ ~prev_held

\* Lines 476-479: the early-press test applied to the offset.
DiscardEarly(offset, hitlag) ==
    IF offset > 15 /\ ~hitlag /\ offset < 25 THEN TriggerNone ELSE TriggerInt(offset)

\* Lines 482-485: the scan of frames i+1..i+5 for a late press, here from
\* frame i+j to frame i+last.  held_after[j] is the button state on frame
\* i+j; the last press found wins.
RECURSIVE LateScan(_, _, _, _, _)
LateScan(trigger, held_here, held_after, j, last) ==
    IF j > last THEN trigger
    ELSE LET before == IF j = 1 THEN held_here ELSE held_after[j - 1]
             found == just_input_l_cancel(held_after[j], before)
         IN  LateScan(IF found THEN TriggerInt(j) ELSE trigger,
                      held_here, held_after, j + 1, last)

\* The body of the loop of l_cancel_compute (lines 450-497) for frame lc_i,
\* whose buttons, hitlag bit and L-cancel status are given; held_after are the
\* buttons of the five frames that follow, read only by the late scan.
\* frames[i - 1] at i = 0 is the last frame of the game (lc_last_held).
LCancelFrame(held, hitlag, l_cancel, held_after) ==
    /\ lc_pc = "run"
    /\ lc_i < lc_n
    /\ (lc_i = lc_n - 1) => held = lc_last_held
    /\ LET i == lc_i
           pressed == just_input_l_cancel(held, lc_prev_held)
           \* lines 453-455
           trigger1 == IF pressed THEN TriggerInt(i) ELSE trigger_input_frame
           hitlag1 == IF pressed THEN hitlag ELSE during_hitlag
           \* line 476: trigger_input_frame := trigger_input_frame - i
           trigger2 == DiscardEarly(trigger1.v - i, hitlag1)
           did_l_cancel == l_cancel = SUCCESS
           scans == ~did_l_cancel /\ trigger2.kind # "none"
           trigger3 == IF scans THEN LateScan(trigger2, held, held_after, 1, 5) ELSE trigger2
       IN  IF l_cancel = NOT_APPLICABLE
           THEN \* lines 472-473: continue; after the last frame, lines 499-500
                /\ trigger_input_frame' = trigger1
                /\ during_hitlag' = hitlag1
                /\ lc_pc' = IF i + 1 = lc_n THEN "returned" ELSE "run"
                /\ lc_error' = lc_error
                /\ UNCHANGED lc_built
           ELSE IF trigger1.kind = "unbound"
           THEN \* line 476 reads a local that no press has assigned yet
                /\ trigger_input_frame' = trigger1
                /\ during_hitlag' = hitlag1
                /\ lc_pc' = "raised"
                /\ lc_error' = "UnboundLocalError"
                /\ UNCHANGED lc_built
           ELSE IF trigger1.kind = "none"
           THEN \* line 476 subtracts an int from None
                /\ trigger_input_frame' = trigger1
                /\ during_hitlag' = hitlag1
                /\ lc_pc' = "raised"
                /\ lc_error' = "TypeError"
                /\ UNCHANGED lc_built
           ELSE IF scans /\ i + 5 > lc_n - 1
           THEN \* line 484: frames[i + j] past the end of the list
                /\ trigger_input_frame' =
                       LateScan(trigger2, held, held_after, 1, lc_n - 1 - i)
                /\ during_hitlag' = hitlag1
                /\ lc_pc' = "raised"
                /\ lc_error' = "IndexError"
                /\ UNCHANGED lc_built
           ELSE \* lines 487-497: the arguments are evaluated, then LCancelData
                \* is called with a keyword it does not have (fast_fall) and
                \* without stocks_remaining, so the call raises and nothing is
                \* appended to player.stats.l_cancels.
                /\ trigger_input_frame' = trigger3
                /\ during_hitlag' = hitlag1
                /\ lc_built' = Append(lc_built,
                                      [frame_index |-> i, l_cancel |-> did_l_cancel,
                                       trigger_input_frame |-> trigger3,
                                       during_hitlag |-> hitlag1])
                /\ lc_pc' = "raised"
                /\ lc_error' = "TypeError"
    /\ lc_prev_held' = held
    /\ lc_i' = lc_i + 1
    /\ UNCHANGED <<lc_n, lc_last_held, l_cancels>>
    /\ UNCHANGED lcOthers

LcIdle ==
    /\ lc_n = 0
    /\ lc_last_held = FALSE
    /\ lc_prev_held = FALSE
    /\ lc_i = 0
    /\ trigger_input_frame = TriggerUnbound
    /\ during_hitlag = FALSE
    /\ lc_built = << >>
    /\ l_cancels = << >>
    /\ lc_pc = "idle"
    /\ lc_error = ""

\* ------------------------------------------------------------------------
\* The decoder (slippistats/parse.py)

\* Event codes.  SPLIT stands for a code the payload-size table lists but
\* EVENT_PARSE_DISPATCH and BUILD_GAME_DISPATCH do not; BAD for a code the
\* table does not list.
FrameCodes == {"FRAME_START", "FRAME_PRE", "FRAME_POST", "ITEM", "FRAME_END"}
BuiltCodes == FrameCodes \cup {"GAME_START", "GAME_END"}

\* The payload-size table of the file being decoded, as _parse_event_payloads
\* returns it (lines 65-76): code -> payload length in bytes.
payload_sizes ==
    [c \in BuiltCodes \cup {"SPLIT"} |-> IF c = "GAME_START" THEN 2 ELSE 1]

\* Bytes of the table record: 2 + this_size, three bytes per entry (line 76).
TableBytes == 2 + 3 * Cardinality(DOMAIN payload_sizes)

\* None, for a byte position (positions are >= 0) and for a frame index.
NoPos == -1
NoFrame == [none |-> TRUE]

\* LookupSize taking a code missing from the table for an empty record.
LookupSizeSkipsUnknown(code) ==
    IF code \in DOMAIN payload_sizes
    THEN [bound |-> TRUE, size |-> payload_sizes[code]]
    ELSE [bound |-> TRUE, size |-> 0]

\* LookupSize taking every listed record for one without payload.
LookupSizeNoPayload(code) ==
    IF code \in DOMAIN payload_sizes
    THEN [bound |-> TRUE, size |-> 0]
    ELSE [bound |-> FALSE, size |-> 0]

\* Lines 102-105: the size lookup.  A code missing from the table is logged
\* and leaves `size` unassigned, so the read of line 107 raises.
LookupSize(code) ==
    IF code \in DOMAIN payload_sizes
    THEN [bound |-> TRUE, size |-> payload_sizes[code]]
    ELSE [bound |-> FALSE, size |-> 0]

\* Lines 333-334: what _parse hands to _parse_events as total_size.
TotalSize(length) == IF length # 0 THEN length - TableBytes ELSE length

\* Line 305: the loop condition of _parse_events.
LoopContinues(total_size, bytes_read, event_is_end) ==
    (total_size = 0 \/ bytes_read < total_size) /\ ~event_is_end

\* FrameEmits for a builder that never hands the open frame over.
FrameEmitsNever(current_frame, index) == FALSE

\* The shared body of _start_frame, _pre_frame, _post_frame, _item_frame and
\* _end_frame (lines 129-254): the open frame, and what is handed to the
\* Frame handler, when a record of `code` for frame `index` arrives.
FrameEmits(current_frame, index) ==
    current_frame # NoFrame /\ current_frame.index # index

FrameAfter(current_frame, code, index) ==
    IF current_frame = NoFrame \/ current_frame.index # index
    THEN [index |-> index, parts |-> <<code>>]
    ELSE [current_frame EXCEPT !.parts = Append(@, code)]

\* The handler call that passes a frame to handlers[Frame].
FrameCall(frame) == [handler |-> "Frame", index |-> frame.index, parts |-> frame.parts]
PlainCall(name) == [handler |-> name, index |-> NoPos, parts |-> << >>]

\* ParseErrorOf without the assignment of line 358.
ParseErrorOfNoFilename(cause, given_pos, seekable, source_pos, calls) ==
    [type |-> "ParseError",
     cause |-> cause,
     filename |-> "",
     pos |-> IF (given_pos = NoPos \/ given_pos = 0) /\ seekable = "yes"
             THEN source_pos ELSE given_pos,
     seekable |-> seekable,
     calls_before |-> Len(calls)]

\* _parse_try (lines 353-370): any exception leaves parse as a ParseError.
\* A position the exception already carries is kept; otherwise the position
\* of the source is used when source.seekable() answers True, and pos stays
\* unset when it answers False or the source has no such method.
ParseErrorOf(cause, given_pos, seekable, source_pos, calls) ==
    [type |-> "ParseError",
     cause |-> cause,
     filename |-> dec_path,
     pos |-> IF (given_pos = NoPos \/ given_pos = 0) /\ seekable = "yes"
             THEN source_pos ELSE given_pos,
     seekable |-> seekable,
     calls_before |-> Len(calls)]

NoError ==
    [type |-> "", cause |-> "", filename |-> "", pos |-> NoPos, seekable |-> "",
     calls_before |-> 0]

SeekableAnswers == {"yes", "no", "absent"}

\* _parse up to the call of _parse_events (lines 329-336): the preamble, the
\* announced length and the payload-size table are read.
ParseBegin ==
    /\ dec_pc = "start"
    /\ \E ok \in BOOLEAN :
           IF ok
           THEN /\ dec_pc' = "events"
                /\ dec_pos' = TableBytes
                /\ dec_loop' = [total_size |-> TotalSize(dec_length), bytes_read |-> 0,
                                event_is_end |-> FALSE, current_frame |-> NoFrame]
                /\ UNCHANGED dec_error
           ELSE \E sk \in SeekableAnswers :
                /\ dec_pc' = "raised"
                /\ dec_error' = ParseErrorOf("preamble", NoPos, sk, dec_pos, dec_calls)
                /\ UNCHANGED <<dec_pos, dec_loop>>
    /\ UNCHANGED <<dec_length, dec_skip_frames, dec_path, dec_source, dec_reads, dec_calls>>
    /\ UNCHANGED decOthers

\* The records the stream holds next.  A game starts with its Start record.
\* The records of one frame come in the order frame start, pre, post, item,
\* frame end (any of them absent or repeated), a frame opens with a frame
\* start or a pre record, and consecutive frames carry consecutive indices,
\* the first being frame 0.  "EOF" is a source with no byte left.
FrameRank(code) ==
    CASE code = "FRAME_START" -> 1
      [] code = "FRAME_PRE" -> 2
      [] code = "FRAME_POST" -> 3
      [] code = "ITEM" -> 4
      [] code = "FRAME_END" -> 5

LastFrameRead(reads) ==
    LET at == {k \in 1..Len(reads) : reads[k].code \in FrameCodes}
    IN  IF at = {} THEN NoFrame
        ELSE reads[CHOOSE k \in at : \A m \in at : m <= k]

NextFrameRecords(reads) ==
    LET last == LastFrameRead(reads)
        opening == {"FRAME_START", "FRAME_PRE"}
    IN  IF last = NoFrame
        THEN {[code |-> c, frame |-> 0] : c \in opening}
        ELSE {[code |-> c, frame |-> last.frame] :
                  c \in {d \in FrameCodes : FrameRank(d) >= FrameRank(last.code)}}
             \cup {[code |-> c, frame |-> last.frame + 1] : c \in opening}

OtherRecords(reads) ==
    {[code |-> c, frame |-> NoPos] :
         c \in {"GAME_END", "SPLIT", "BAD", "EOF"}
                \cup (IF reads = << >> THEN {"GAME_START"} ELSE {})}

\* Number of records after which the source holds nothing but an end-of-game
\* record or no byte at all.
MaxEvents == 4

NextRecords(reads) ==
    IF Len(reads) < MaxEvents
    THEN NextFrameRecords(reads) \cup OtherRecords(reads)
    ELSE {[code |-> c, frame |-> NoPos] : c \in {"GAME_END", "EOF"}}

\* What source.seekable() answers when _parse_try asks: it asks only for an
\* exception that carries no position.
SeekableAsked(given_pos) ==
    IF given_pos = NoPos \/ given_pos = 0 THEN SeekableAnswers ELSE {"unasked"}

\* GameStartSkip without the seek.
GameStartSkipNone(total_size, bytes_read) == 0

\* Line 271: how far _game_start seeks forward when frames are skipped.
GameStartSkip(total_size, bytes_read) ==
    total_size - bytes_read - payload_sizes["GAME_END"] - 1

\* Positions in the payload sub-stream at which the decoder of a record may
\* fail; NoPos when it succeeds.
DecoderFailures(code) ==
    IF code \in BuiltCodes THEN {NoPos, 0, payload_sizes[code]} ELSE {NoPos}

\* The body of the loop of _parse_events (lines 306-317) for the record the
\* source holds at dec_pos, _parse_event (lines 93-124) and the
\* BUILD_GAME_DISPATCH entry included.  `sub` is the position in the payload
\* sub-stream at which the record's decoder fails, NoPos when it succeeds;
\* `sk` is what source.seekable() answers.
ParseEvent(rec, sub, sk) ==
           LET code == rec.code
               index == rec.frame
               look == LookupSize(code)
               after_code == dec_pos + 1
               after_payload == after_code + look.size
               bytes_read == dec_loop.bytes_read + 1 + look.size
               cur == dec_loop.current_frame
               skip == GameStartSkip(dec_loop.total_size, bytes_read)
           IN  /\ dec_reads' = Append(dec_reads, [code |-> code, frame |-> index, pos |-> dec_pos])
               /\ IF code = "EOF"
                  THEN \* line 94: unpacking the empty read fails
                       /\ dec_pc' = "raised"
                       /\ dec_error' = ParseErrorOf("short read", NoPos, sk, dec_pos, dec_calls)
                       /\ UNCHANGED <<dec_pos, dec_loop, dec_calls>>
                  ELSE IF ~look.bound
                  THEN \* line 107: UnboundLocalError, outside the try of line 109
                       /\ dec_pc' = "raised"
                       /\ dec_pos' = after_code
                       /\ dec_error' = ParseErrorOf("unknown code", NoPos, sk, after_code, dec_calls)
                       /\ UNCHANGED <<dec_loop, dec_calls>>
                  ELSE IF sub # NoPos
                  THEN \* lines 116-124: ParseError with the sub-stream position
                       /\ dec_pc' = "raised"
                       /\ dec_pos' = after_payload
                       /\ dec_error' = ParseErrorOf("decode", sub, sk, after_payload, dec_calls)
                       /\ UNCHANGED <<dec_loop, dec_calls>>
                  ELSE /\ dec_pc' = "events"
                       /\ UNCHANGED dec_error
                       /\ IF code = "GAME_START"
                          THEN \* _game_start, lines 259-274
                               /\ dec_calls' = Append(dec_calls, PlainCall("Start"))
                               /\ dec_pos' = IF dec_skip_frames /\ dec_loop.total_size # 0
                                             THEN after_payload + skip ELSE after_payload
                               /\ dec_loop' = [dec_loop EXCEPT !.bytes_read = bytes_read,
                                                               !.event_is_end = FALSE]
                          ELSE IF code = "GAME_END"
                          THEN \* _game_end, lines 277-284
                               /\ dec_calls' = Append(dec_calls, PlainCall("End"))
                               /\ dec_pos' = after_payload
                               /\ dec_loop' = [dec_loop EXCEPT !.bytes_read = bytes_read,
                                                               !.event_is_end = TRUE]
                          ELSE IF code \in FrameCodes
                          THEN /\ dec_calls' = IF FrameEmits(cur, index)
                                               THEN Append(dec_calls, FrameCall(cur))
                                               ELSE dec_calls
                               /\ dec_pos' = after_payload
                               /\ dec_loop' = [dec_loop EXCEPT !.bytes_read = bytes_read,
                                                               !.event_is_end = FALSE,
                                                               !.current_frame = FrameAfter(cur, code, index)]
                          ELSE \* line 309: no builder, the default lambda returns None
                               /\ dec_pos' = after_payload
                               /\ dec_loop' = [dec_loop EXCEPT !.bytes_read = bytes_read,
                                                               !.event_is_end = FALSE,
                                                               !.current_frame = NoFrame]
                               /\ UNCHANGED dec_calls

\* One iteration of the loop of _parse_events (line 305) over a source that
\* is produced record by record.
ParseEventsStep ==
    /\ dec_pc = "events"
    /\ LoopContinues(dec_loop.total_size, dec_loop.bytes_read, dec_loop.event_is_end)
    /\ \E rec \in NextRecords(dec_reads) :
       \E sub \in DecoderFailures(rec.code) :
       \E sk \in SeekableAsked(IF LookupSize(rec.code).bound /\ rec.code # "EOF" THEN sub ELSE NoPos) :
           ParseEvent(rec, sub, sk)
    /\ UNCHANGED <<dec_length, dec_skip_frames, dec_path, dec_source>>
    /\ UNCHANGED decOthers

\* Position of the k-th record of a source given in full: the records follow
\* the payload-size table, each with its code byte and its payload.
RECURSIVE RecordOffset(_, _)
RecordOffset(source, k) ==
    IF k = 1 THEN TableBytes
    ELSE RecordOffset(source, k - 1) + 1 + payload_sizes[source[k - 1].code]

\* What _parse_event reads at position pos of such a source: the record that
\* starts there; no byte behind the last record; some byte taken for a code
\* anywhere else.
SourceRecordsAt(source, pos) ==
    LET starts == {k \in 1..Len(source) : RecordOffset(source, k) = pos}
    IN  IF starts # {}
        THEN {source[k] : k \in starts}
        ELSE IF pos >= RecordOffset(source, Len(source) + 1)
        THEN {[code |-> "EOF", frame |-> NoPos]}
        ELSE {[code |-> c, frame |-> NoPos] : c \in {"GAME_END", "SPLIT", "BAD"}}

\* One iteration of the loop of _parse_events (line 305) over a source given
\* in full.
ParseSourceStep ==
    /\ dec_pc = "events"
    /\ LoopContinues(dec_loop.total_size, dec_loop.bytes_read, dec_loop.event_is_end)
    /\ \E rec \in SourceRecordsAt(dec_source, dec_pos) :
       \E sub \in DecoderFailures(rec.code) :
       \E sk \in SeekableAsked(IF LookupSize(rec.code).bound /\ rec.code # "EOF" THEN sub ELSE NoPos) :
           ParseEvent(rec, sub, sk)
    /\ UNCHANGED <<dec_length, dec_skip_frames, dec_path, dec_source>>
    /\ UNCHANGED decOthers

\* The loop is left (line 305): the open frame is handed over (lines 320-322)
\* and _parse reads the metadata that follows the blob (lines 338-346).
ParseEventsExit ==
    /\ dec_pc = "events"
    /\ ~LoopContinues(dec_loop.total_size, dec_loop.bytes_read, dec_loop.event_is_end)
    /\ LET cur == dec_loop.current_frame
           calls1 == IF cur # NoFrame THEN Append(dec_calls, FrameCall(cur)) ELSE dec_calls
       IN  \E ok \in BOOLEAN, sk \in SeekableAnswers :
               IF ok
               THEN /\ dec_calls' = calls1 \o <<PlainCall("dict"), PlainCall("Metadata")>>
                    /\ dec_pc' = "returned"
                    /\ UNCHANGED dec_error
               ELSE /\ dec_calls' = calls1
                    /\ dec_pc' = "raised"
                    /\ dec_error' = ParseErrorOf("metadata", NoPos, sk, dec_pos, calls1)
    /\ UNCHANGED <<dec_length, dec_skip_frames, dec_path, dec_source, dec_pos, dec_loop, dec_reads>>
    /\ UNCHANGED decOthers

DecIdle ==
    /\ dec_length = 0
    /\ dec_skip_frames = FALSE
    /\ dec_path = ""
    /\ dec_source = << >>
    /\ dec_pos = 0
    /\ dec_loop = [total_size |-> 0, bytes_read |-> 0, event_is_end |-> FALSE,
                   current_frame |-> NoFrame]
    /\ dec_reads = << >>
    /\ dec_calls = << >>
    /\ dec_pc = "idle"
    /\ dec_error = NoError

\* ------------------------------------------------------------------------
\* The payload-size table (_parse_event_payloads, parse.py lines 52-76)

\* EventType (event.py): the codes the decoder recognises.
EventType == BuiltCodes \cup {"EVENT_PAYLOADS"}

\* EventType(code) succeeds.
IsEventType(code) == code \in EventType

\* The empty dict of line 65.
NoSizes == [c \in {} |-> 0]

\* RecordSize leaving out a code that EventType does not have.
RecordSizeKnownOnly(table, code, size) ==
    IF IsEventType(code)
    THEN [c \in DOMAIN table \cup {code} |-> IF c = code THEN size ELSE table[c]]
    ELSE table

\* Line 69: sizes[code] = size.
RecordSize(table, code, size) ==
    [c \in DOMAIN table \cup {code} |-> IF c = code THEN size ELSE table[c]]

\* Lines 70-73: a code EventType rejects is logged at level INFO.
LogUnknown(log, code) ==
    IF IsEventType(code)
    THEN log
    ELSE Append(log, [level |-> "INFO", message |-> "ignoring unknown event type", code |-> code])

\* Lines 60-61: the number of entries the size byte announces.
CommandCount(this_size) == (this_size - 1) \div 3

\* Lines 53-63: the code and the size byte of the table record.
TableBegin ==
    /\ tbl_pc = "start"
    /\ IF ~IsEventType(tbl_code) \/ tbl_code # "EVENT_PAYLOADS"
          \/ CommandCount(tbl_this_size) * 3 # tbl_this_size - 1
       THEN tbl_pc' = "raised" /\ tbl_error' = "ValueError"
       ELSE tbl_pc' = "table" /\ UNCHANGED tbl_error
    /\ UNCHANGED <<tbl_code, tbl_this_size, tbl_i, tbl_read, sizes, tbl_log>>
    /\ UNCHANGED tblOthers

\* One iteration of the loop of lines 66-73 for the entry (code, size) the
\* stream holds next; "EOF" is a stream with no byte left, whose unpacking
\* fails.
TableEntry(code, size) ==
    /\ tbl_pc = "table"
    /\ tbl_i < CommandCount(tbl_this_size)
    /\ tbl_read' = Append(tbl_read, [code |-> code, size |-> size])
    /\ IF code = "EOF"
       THEN /\ tbl_pc' = "raised"
            /\ tbl_error' = "struct.error"
            /\ UNCHANGED <<tbl_i, sizes, tbl_log>>
       ELSE /\ sizes' = RecordSize(sizes, code, size)
            /\ tbl_log' = LogUnknown(tbl_log, code)
            /\ tbl_i' = tbl_i + 1
            /\ UNCHANGED <<tbl_pc, tbl_error>>
    /\ UNCHANGED <<tbl_code, tbl_this_size>>
    /\ UNCHANGED tblOthers

\* Line 76: the loop is over and the table is returned.
TableReturn ==
    /\ tbl_pc = "table"
    /\ tbl_i >= CommandCount(tbl_this_size)
    /\ tbl_pc' = "returned"
    /\ UNCHANGED <<tbl_code, tbl_this_size, tbl_i, tbl_read, sizes, tbl_log, tbl_error>>
    /\ UNCHANGED tblOthers

TblIdle ==
    /\ tbl_code = ""
    /\ tbl_this_size = 0
    /\ tbl_i = 0
    /\ tbl_read = << >>
    /\ sizes = NoSizes
    /\ tbl_log = << >>
    /\ tbl_pc = "idle"
    /\ tbl_error = ""

\* ------------------------------------------------------------------------
\* The entry points of the six classifier passes: what each does between its
\* call and the first frame of its loop.

\* Tuples of version numbers compare as Python tuples do.
VersionLess(a, b) ==
    \/ a[1] < b[1]
    \/ a[1] = b[1] /\ a[2] < b[2]
    \/ a[1] = b[1] /\ a[2] = b[2] /\ a[3] < b[3]

\* NoArguments holding for no call.
NoArgumentsNever(connect_code, player) == FALSE

\* `connect_code is None and player is None`; "" is no connect code.
NoArguments(connect_code, player) == connect_code = "" /\ ~player

DefaultEntryChecks == [ground_check |-> TRUE, knockback_check |-> TRUE]

\* The raise of the argument test, shared by the six entry points.
EntryRaisesValueError ==
    /\ ent_pc' = "raised"
    /\ ent_error' = "ValueError"
    /\ UNCHANGED <<ent_checks, ent_warnings>>

EntryWarns(text) == ent_warnings' = Append(ent_warnings, [category |-> "RuntimeWarning", text |-> text])

\* An entry point without a version test: combo_compute (combo_computer.py
\* lines 153-158), wavedash_compute (113-117) and dash_compute (162-166).
PlainEntry(fn) ==
    /\ ent_pc = "called"
    /\ ent_fn = fn
    /\ IF NoArguments(ent_connect_code, ent_player)
       THEN EntryRaisesValueError
       ELSE /\ ent_pc' = "loop"
            /\ UNCHANGED <<ent_checks, ent_warnings, ent_error>>
    /\ UNCHANGED <<ent_fn, ent_connect_code, ent_player, ent_version, ent_frames_read, ent_appended>>
    /\ UNCHANGED entOthers

ComboEntry == PlainEntry("combo_compute")
WavedashEntry == PlainEntry("wavedash_compute")
DashEntry == PlainEntry("dash_compute")

\* tech_compute, lines 208-224.
TechEntry ==
    /\ ent_pc = "called"
    /\ ent_fn = "tech_compute"
    /\ IF NoArguments(ent_connect_code, ent_player)
       THEN EntryRaisesValueError
       ELSE /\ ent_pc' = "loop"
            /\ IF VersionLess(ent_version, <<2, 0, 0>>)
               THEN /\ ent_checks' = [ent_checks EXCEPT !.ground_check = FALSE]
                    /\ EntryWarns("Limited computation")
               ELSE UNCHANGED <<ent_checks, ent_warnings>>
            /\ UNCHANGED ent_error
    /\ UNCHANGED <<ent_fn, ent_connect_code, ent_player, ent_version, ent_frames_read, ent_appended>>
    /\ UNCHANGED entOthers

\* take_hit_compute, lines 309-330.
TakeHitEntry ==
    /\ ent_pc = "called"
    /\ ent_fn = "take_hit_compute"
    /\ IF NoArguments(ent_connect_code, ent_player)
       THEN EntryRaisesValueError
       ELSE IF VersionLess(ent_version, <<2, 0, 0>>)
       THEN /\ ent_pc' = "returned"
            /\ EntryWarns("No computation")
            /\ UNCHANGED <<ent_checks, ent_error>>
       ELSE /\ ent_pc' = "loop"
            /\ IF VersionLess(ent_version, <<3, 5, 0>>)
               THEN /\ ent_checks' = [ent_checks EXCEPT !.knockback_check = FALSE]
                    /\ EntryWarns("Partial computation")
               ELSE UNCHANGED <<ent_checks, ent_warnings>>
            /\ UNCHANGED ent_error
    /\ UNCHANGED <<ent_fn, ent_connect_code, ent_player, ent_version, ent_frames_read, ent_appended>>
    /\ UNCHANGED entOthers

\* l_cancel_compute, lines 433-445.
LCancelEntry ==
    /\ ent_pc = "called"
    /\ ent_fn = "l_cancel_compute"
    /\ IF NoArguments(ent_connect_code, ent_player)
       THEN EntryRaisesValueError
       ELSE IF VersionLess(ent_version, <<2, 0, 0>>)
       THEN /\ ent_pc' = "returned"
            /\ EntryWarns("No computation")
            /\ UNCHANGED <<ent_checks, ent_error>>
       ELSE /\ ent_pc' = "loop"
            /\ UNCHANGED <<ent_checks, ent_warnings, ent_error>>
    /\ UNCHANGED <<ent_fn, ent_connect_code, ent_player, ent_version, ent_frames_read, ent_appended>>
    /\ UNCHANGED entOthers

\* What follows the entry, as far as the entry is concerned: the loop reads
\* the player's frames one by one, `appends` records are appended to the
\* output list on a frame, and the list is returned after the last.
EntryFrame(frames, appends) ==
    /\ ent_pc = "loop"
    /\ IF ent_frames_read < frames
       THEN /\ ent_frames_read' = ent_frames_read + 1
            /\ ent_appended' = ent_appended + appends
            /\ UNCHANGED ent_pc
       ELSE /\ ent_pc' = "returned"
            /\ UNCHANGED <<ent_frames_read, ent_appended>>
    /\ UNCHANGED <<ent_fn, ent_connect_code, ent_player, ent_version, ent_checks,
                   ent_warnings, ent_error>>
    /\ UNCHANGED entOthers

EntIdle ==
    /\ ent_fn = ""
    /\ ent_connect_code = ""
    /\ ent_player = FALSE
    /\ ent_version = <<0, 0, 0>>
    /\ ent_checks = DefaultEntryChecks
    /\ ent_warnings = << >>
    /\ ent_frames_read = 0
    /\ ent_appended = 0
    /\ ent_pc = "idle"
    /\ ent_error = ""

\* ------------------------------------------------------------------------
\* StatsComputer.take_hit_compute (stats_computer.py lines 303-426)

\* get_joystick_region (stats/common.py): a coordinate of magnitude <= 1 is
\* inside the dead band of its axis, one of magnitude 2 outside of it.
StickRegion(stick) ==
    LET x == stick[1]
        y == stick[2]
    IN  CASE Abs(x) <= 1 /\ Abs(y) <= 1 -> DEAD_ZONE
          [] Abs(x) <= 1 /\ y > 1 -> UP
          [] x > 1 /\ y > 1 -> UP_RIGHT
          [] x > 1 /\ Abs(y) <= 1 -> RIGHT
          [] x > 1 /\ y < -1 -> DOWN_RIGHT
          [] Abs(x) <= 1 /\ y < -1 -> DOWN
          [] x < -1 /\ y < -1 -> DOWN_LEFT
          [] x < -1 /\ Abs(y) <= 1 -> LEFT
          [] x < -1 /\ y > 1 -> UP_LEFT

\* just_took_damage (stats/common.py).
just_took_damage(percent, prev_percent) == percent > prev_percent

\* Lines 348-363: effective_stick is the frame's own joystick object, and
\* the assignments to its x and y change that object.
EffectiveStick(stick) ==
    LET region == StickRegion(stick)
    IN  CASE region \in {UP, DOWN} -> <<0, stick[2]>>
          [] region \in {LEFT, RIGHT} -> <<stick[1], 0>>
          [] region = DEAD_ZONE -> <<0, 0>>
          [] OTHER -> stick

\* None, for a Position and for a JoystickRegion.
NoStick == << >>
NoRegion == -2

\* TakeHitData() (stat_types.py lines 217-235) with the assignments of
\* lines 400-412 for a hit on frame i.
NewTakeHit(i, percent, knockback_check) ==
    [frame_index |-> i,
     percent |-> percent,
     kb_velocity |-> IF knockback_check THEN "set" ELSE "None",
     kb_angle |-> IF knockback_check THEN "set" ELSE "None",
     final_kb_velocity |-> "None",
     final_kb_angle |-> "None",
     di_efficacy |-> "None",
     di_stick_pos |-> NoStick,
     asdi |-> NoRegion,
     stick_regions_during_hitlag |-> << >>,
     hitlag_frames |-> 0]

\* Lines 346-391: the fields set when the hit window closes on a frame whose
\* joystick (after the assignments of lines 348-363) is `stick`.
ClosedTakeHit(hit, stick, knockback_check) ==
    [hit EXCEPT !.di_stick_pos = stick,
                !.final_kb_angle = IF knockback_check THEN "set" ELSE @,
                !.di_efficacy = IF knockback_check THEN "set" ELSE @,
                !.final_kb_velocity = IF knockback_check THEN "set" ELSE @,
                !.asdi = StickRegion(stick)]

\* Lines 316-331: the version tests of take_hit_compute, called with a
\* player and an opponent.
TakeHitBegin ==
    /\ th_pc = "called"
    /\ IF VersionLess(th_version, <<2, 0, 0>>)
       THEN /\ th_pc' = "returned"
            /\ th_warnings' = Append(th_warnings, "No computation")
            /\ UNCHANGED th_knockback_check
       ELSE /\ th_pc' = "run"
            /\ IF VersionLess(th_version, <<3, 5, 0>>)
               THEN /\ th_knockback_check' = FALSE
                    /\ th_warnings' = Append(th_warnings, "Partial computation")
               ELSE /\ th_knockback_check' = TRUE
                    /\ UNCHANGED th_warnings
    /\ UNCHANGED <<th_version, th_frames, th_i, take_hit_state, take_hits, th_error>>
    /\ UNCHANGED thOthers

\* One iteration of the loop of take_hit_compute (lines 333-424).  The call
\* of line 393 names a method TakeHitData does not have (it has
\* _find_valid_sdi, stat_types.py line 237) and raises AttributeError, so
\* the append of line 395 is never reached.
TakeHitFrame ==
    /\ th_pc = "run"
    /\ th_i < Len(th_frames)
    /\ LET i == th_i
           n == Len(th_frames)
           player_frame == th_frames[i + 1]
           prev_player_frame == th_frames[PyIdx(i - 1, n) + 1]
           in_hitlag == player_frame.hitlag /\ ~prev_player_frame.shield
           was_in_hitlag == prev_player_frame.hitlag /\ ~prev_player_frame.shield
           effective_stick == EffectiveStick(player_frame.joystick)
           opens == ~was_in_hitlag
                    /\ just_took_damage(player_frame.percent, prev_player_frame.percent)
           state1 == IF opens
                     THEN NewTakeHit(i, player_frame.percent, th_knockback_check)
                     ELSE take_hit_state
           next_pc == IF i + 1 = n THEN "returned" ELSE "run"
       IN  IF ~in_hitlag
           THEN IF was_in_hitlag /\ take_hit_state # NoneRec
                THEN /\ th_frames' = [th_frames EXCEPT ![i + 1].joystick = effective_stick]
                     /\ take_hit_state' = ClosedTakeHit(take_hit_state, effective_stick,
                                                         th_knockback_check)
                     /\ th_pc' = "raised"
                     /\ th_error' = "AttributeError"
                     /\ UNCHANGED <<th_i, take_hits>>
                ELSE /\ th_i' = i + 1
                     /\ th_pc' = next_pc
                     /\ UNCHANGED <<th_frames, take_hit_state, take_hits, th_error>>
           ELSE /\ take_hit_state' =
                       IF state1 # NoneRec
                       THEN [state1 EXCEPT
                                !.stick_regions_during_hitlag =
                                    Append(@, StickRegion(player_frame.joystick)),
                                !.hitlag_frames = @ + 1]
                       ELSE state1
                /\ th_i' = i + 1
                /\ th_pc' = next_pc
                /\ UNCHANGED <<th_frames, take_hits, th_error>>
    /\ UNCHANGED <<th_version, th_knockback_check, th_warnings>>
    /\ UNCHANGED thOthers

ThIdle ==
    /\ th_version = <<0, 0, 0>>
    /\ th_knockback_check = TRUE
    /\ th_frames = << >>
    /\ th_i = 0
    /\ take_hit_state = NoneRec
    /\ take_hits = << >>
    /\ th_warnings = << >>
    /\ th_pc = "idle"
    /\ th_error = ""

\* ------------------------------------------------------------------------
\* The batch run: get_stats and its worker _eef (stats_computer.py lines
\* 604-649)

\* What StatsComputer(file).wavedash_compute(connect_code) does for a file:
\* a file that cannot be decoded raises ParseError; a file without the
\* connect code raises IdentifierError; a file in which the player lands in
\* LAND_FALL_SPECIAL within 5 frames of an L or R press raises TypeError,
\* because line 141 passes r_frame, which WavedashData.__init__ does not
\* take (stat_types.py lines 60-67); any other file yields the player's
\* wavedash list, which is empty, line 138 being the only place that sets
\* wavedash_state.
FileKinds == {"corrupt", "other_player", "wavedash", "no_wavedash"}

WavedashComputeOf(kind) ==
    CASE kind = "corrupt" -> [exception |-> "ParseError", length |-> 0]
      [] kind = "other_player" -> [exception |-> "IdentifierError", length |-> 0]
      [] kind = "wavedash" -> [exception |-> "TypeError", length |-> 0]
      [] kind = "no_wavedash" -> [exception |-> "", length |-> 0]

\* _eef (lines 604-612): what the future of a file holds when it is done.
EefResult(file, kind) ==
    LET thing == WavedashComputeOf(kind)
    IN  IF thing.exception = "IdentifierError"
        THEN [exception |-> "", data |-> FALSE, file |-> file]
        ELSE IF thing.exception # ""
        THEN [exception |-> thing.exception, data |-> FALSE, file |-> file]
        ELSE [exception |-> "", data |-> thing.length > 0, file |-> file]

\* A future that is not done.
Pending == [exception |-> "", data |-> FALSE, file |-> 0]

\* dfs = None (line 617), and a frame of the rows of the files merged.
NoDfs == [none |-> TRUE, files |-> << >>]

\* A worker process finishes _eef for one of the submitted files.
WorkerDone(file) ==
    /\ batch_pc = "collect"
    /\ futures[file] = Pending
    /\ futures' = [futures EXCEPT ![file] = EefResult(file, batch_files[file])]
    /\ completed' = Append(completed, file)
    /\ UNCHANGED <<batch_files, batch_handled, batch_count, dfs, batch_printed,
                   batch_pc, batch_error>>
    /\ UNCHANGED batchOthers

\* One iteration of the loop over as_completed(futures) (lines 630-644): the
\* next future in completion order.
Collect ==
    /\ batch_pc = "collect"
    /\ batch_handled < Len(completed)
    /\ LET future == futures[completed[batch_handled + 1]]
       IN  /\ batch_handled' = batch_handled + 1
           /\ IF future.exception # ""
              THEN /\ batch_printed' = Append(batch_printed, future.exception)
                   /\ UNCHANGED <<batch_count, dfs>>
              ELSE /\ batch_count' = batch_count + 1
                   /\ batch_printed' = Append(batch_printed, "file")
                   /\ dfs' = IF ~future.data THEN dfs
                             ELSE [none |-> FALSE, files |-> Append(dfs.files, future.file)]
    /\ UNCHANGED <<batch_files, futures, completed, batch_pc, batch_error>>
    /\ UNCHANGED batchOthers

\* Lines 646-649, after the last future: dfs.sort raises AttributeError when
\* dfs is still None; otherwise the frame is written and returned.
Finish ==
    /\ batch_pc = "collect"
    /\ batch_handled = Len(batch_files)
    /\ IF dfs.none
       THEN batch_pc' = "raised" /\ batch_error' = "AttributeError"
       ELSE batch_pc' = "returned" /\ UNCHANGED batch_error
    /\ UNCHANGED <<batch_files, futures, completed, batch_handled, batch_count, dfs,
                   batch_printed>>
    /\ UNCHANGED batchOthers

BatchIdle ==
    /\ batch_files = << >>
    /\ futures = << >>
    /\ completed = << >>
    /\ batch_handled = 0
    /\ batch_count = 0
    /\ dfs = NoDfs
    /\ batch_printed = << >>
    /\ batch_pc = "idle"
    /\ batch_error = ""

\* ------------------------------------------------------------------------
\* StatsComputer.tech_compute (stats_computer.py lines 202-301)
PASSIVE == 199
PASSIVE_STAND_F == 200

\* get_tech_type (stats/common.py): the TechType of a teching action state,
\* here tagged by the state it is derived from; NoTechType is None.
NoTechType == << >>
get_tech_type(action_state) == <<"TechType", action_state>>

\* Lines 247-252: the TechData opened at array index i.
NewTech(i) == [frame_index |-> i, tech_type |-> NoTechType, was_punished |-> FALSE]

\* A tech record that is never marked as punished.
ClosedTechUnpunished(tech, player_state) == tech

\* Lines 237-238: the record as it is appended on the first frame that is
\* not teching.
ClosedTech(tech, player_state) ==
    IF is_damaged(player_state) THEN [tech EXCEPT !.was_punished = TRUE] ELSE tech

\* Line 224: tech_compute starts by dropping what an earlier pass left.
TechBegin ==
    /\ tech_pc = "called"
    /\ tech_state' = NoneRec
    /\ tech_pc' = "run"
    /\ UNCHANGED <<tech_n, tech_last, tech_prev, tech_i, techs, tech_error>>
    /\ UNCHANGED techOthers

\* One iteration of the loop of tech_compute (lines 225-300) for a frame
\* whose post-frame action state is player_state.  The frame before is
\* frames[i - 1], for i = 0 the last frame of the game (tech_last).
TechFrame(player_state) ==
    /\ tech_pc = "run"
    /\ tech_i < tech_n
    /\ (tech_i = tech_n - 1) => player_state = tech_last
    /\ LET i == tech_i
           prev_player_state == tech_prev
           curr_teching == is_teching(player_state)
           was_teching == is_teching(prev_player_state)
           state1 == IF ~was_teching THEN NewTech(i) ELSE tech_state
           next_pc == IF i + 1 = tech_n THEN "returned" ELSE "run"
       IN  IF ~curr_teching
           THEN \* lines 235-241
                /\ IF was_teching /\ tech_state # NoneRec
                   THEN /\ techs' = Append(techs, ClosedTech(tech_state, player_state))
                        /\ tech_state' = NoneRec
                   ELSE UNCHANGED <<techs, tech_state>>
                /\ tech_pc' = next_pc
                /\ UNCHANGED tech_error
           ELSE IF player_state = prev_player_state
           THEN \* lines 263-264
                /\ tech_state' = state1
                /\ tech_pc' = next_pc
                /\ UNCHANGED <<techs, tech_error>>
           ELSE IF state1 = NoneRec
           THEN \* line 300 (or the match arms) assigns to a field of None
                /\ tech_pc' = "raised"
                /\ tech_error' = "AttributeError"
                /\ UNCHANGED <<techs, tech_state>>
           ELSE \* lines 266-300
                /\ tech_state' = [state1 EXCEPT !.tech_type = get_tech_type(player_state)]
                /\ tech_pc' = next_pc
                /\ UNCHANGED <<techs, tech_error>>
    /\ tech_prev' = player_state
    /\ tech_i' = tech_i + 1
    /\ UNCHANGED <<tech_n, tech_last>>
    /\ UNCHANGED techOthers

TechIdle ==
    /\ tech_n = 0
    /\ tech_last = 0
    /\ tech_prev = 0
    /\ tech_i = 0
    /\ tech_state = NoneRec
    /\ techs = << >>
    /\ tech_pc = "idle"
    /\ tech_error = ""

\* ---- StatsComputer.wavedash_compute (stats_computer.py 108-155) ----
KNEE_BEND == 24

\* player.frames[index] of a Python list of n elements: a negative index
\* counts from the end, an index outside -n..n-1 raises IndexError.
FrameAt(frames, index) ==
    IF index >= 0 /\ index < Len(frames) THEN frames[index + 1]
    ELSE IF index < 0 /\ index >= 0 - Len(frames) THEN frames[Len(frames) + index + 1]
    ELSE NoneRec

\* The parameters of WavedashData.__init__ (stat_types.py 60-67) and the
\* keywords of the call in wavedash_compute (stats_computer.py 138-144).
WavedashDataParameters == {"frame_index", "stocks_remaining", "trigger_frame", "stick", "airdodge_frames"}
WavedashCallKeywords == {"frame_index", "stocks_remaining", "r_frame", "stick", "airdodge_frames"}

\* WavedashData(frame_index=i, ..., airdodge_frames=j): a keyword that is no
\* parameter raises TypeError; otherwise waveland starts True.
WavedashData(keywords, i, j) ==
    IF keywords \subseteq WavedashDataParameters
    THEN [frame_index |-> i, airdodge_frames |-> j, trigger_frame |-> 0, r_frame |-> -1, waveland |-> TRUE]
    ELSE [raised |-> "TypeError"]

\* for k in range(0, 5): the first frame in KNEE_BEND counted back from the
\* trigger frame i - j sets r_frame and clears waveland.
RECURSIVE KneeBendLoop(_, _, _, _)
KneeBendLoop(frames, from, k, data) ==
    IF k = 5 THEN data
    ELSE LET past_frame == FrameAt(frames, from - k)
         IN  IF past_frame = NoneRec THEN [raised |-> "IndexError"]
             ELSE IF past_frame.state = KNEE_BEND
                  THEN [data EXCEPT !.r_frame = k, !.waveland = FALSE]
                  ELSE KneeBendLoop(frames, from, k + 1, data)

\* for j in range(0, 5): every frame with L or R pressed builds a new
\* WavedashData; the loop has no break, so a later j overwrites an earlier one.
RECURSIVE TriggerLoop(_, _, _, _)
TriggerLoop(frames, i, j, state) ==
    IF j = 5 THEN state
    ELSE LET past_frame == FrameAt(frames, i - j)
         IN  IF past_frame = NoneRec THEN [raised |-> "IndexError"]
             ELSE IF past_frame.trigger
                  THEN LET data == WavedashData(WavedashCallKeywords, i, j)
                       IN  IF "raised" \in DOMAIN data THEN data
                           ELSE LET marked == KneeBendLoop(frames, i - j, 0, data)
                                IN  IF "raised" \in DOMAIN marked THEN marked
                                    ELSE TriggerLoop(frames, i, j + 1, marked)
                  ELSE TriggerLoop(frames, i, j + 1, state)

IsLanding(frames, i) ==
    /\ FrameAt(frames, i).state = LAND_FALL_SPECIAL
    /\ FrameAt(frames, i - 1).state # LAND_FALL_SPECIAL

\* One iteration of the loop over player.frames.
WavedashFrame ==
    /\ wd_pc = "run"
    /\ wd_i < Len(wd_frames)
    /\ IF ~IsLanding(wd_frames, wd_i)
       THEN /\ wd_i' = wd_i + 1
            /\ UNCHANGED <<wavedash_state, wavedashes, wd_pc, wd_error>>
       ELSE LET state == TriggerLoop(wd_frames, wd_i, 0, wavedash_state)
            IN  IF "raised" \in DOMAIN state
                THEN /\ wd_pc' = "raised"
                     /\ wd_error' = state.raised
                     /\ UNCHANGED <<wd_i, wavedash_state, wavedashes>>
                ELSE /\ wavedash_state' = state
                     /\ wavedashes' = IF state # NoneRec THEN Append(wavedashes, state) ELSE wavedashes
                     /\ wd_i' = wd_i + 1
                     /\ UNCHANGED <<wd_pc, wd_error>>
    /\ UNCHANGED <<wd_frames, wdOthers>>

WavedashReturn ==
    /\ wd_pc = "run"
    /\ wd_i = Len(wd_frames)
    /\ wd_pc' = "returned"
    /\ UNCHANGED <<wd_frames, wd_i, wavedash_state, wavedashes, wd_error, wdOthers>>

WdIdle ==
    /\ wd_frames = << >>
    /\ wd_i = 0
    /\ wavedash_state = NoneRec
    /\ wavedashes = << >>
    /\ wd_pc = "idle"
    /\ wd_error = ""

\* A specification of one subsystem leaves every other one idle.
OnlySdi == DashIdle /\ ComboIdle /\ LcIdle /\ DecIdle /\ TblIdle /\ EntIdle /\ ThIdle /\ BatchIdle /\ TechIdle /\ WdIdle
OnlyDash == SdiIdle /\ ComboIdle /\ LcIdle /\ DecIdle /\ TblIdle /\ EntIdle /\ ThIdle /\ BatchIdle /\ TechIdle /\ WdIdle
OnlyCombo == SdiIdle /\ DashIdle /\ LcIdle /\ DecIdle /\ TblIdle /\ EntIdle /\ ThIdle /\ BatchIdle /\ TechIdle /\ WdIdle
OnlyLc == SdiIdle /\ DashIdle /\ ComboIdle /\ DecIdle /\ TblIdle /\ EntIdle /\ ThIdle /\ BatchIdle /\ TechIdle /\ WdIdle
OnlyDec == SdiIdle /\ DashIdle /\ ComboIdle /\ LcIdle /\ TblIdle /\ EntIdle /\ ThIdle /\ BatchIdle /\ TechIdle /\ WdIdle
OnlyTbl == SdiIdle /\ DashIdle /\ ComboIdle /\ LcIdle /\ DecIdle /\ EntIdle /\ ThIdle /\ BatchIdle /\ TechIdle /\ WdIdle
OnlyEnt == DashIdle /\ ComboIdle /\ LcIdle /\ DecIdle /\ TblIdle /\ SdiIdle /\ ThIdle /\ BatchIdle /\ TechIdle /\ WdIdle
OnlyTh == DashIdle /\ ComboIdle /\ LcIdle /\ DecIdle /\ TblIdle /\ EntIdle /\ SdiIdle /\ BatchIdle /\ TechIdle /\ WdIdle
OnlyBatch == DashIdle /\ ComboIdle /\ LcIdle /\ DecIdle /\ TblIdle /\ EntIdle /\ ThIdle /\ SdiIdle /\ TechIdle /\ WdIdle
OnlyTech == DashIdle /\ ComboIdle /\ LcIdle /\ DecIdle /\ TblIdle /\ EntIdle /\ ThIdle /\ BatchIdle /\ SdiIdle /\ WdIdle
OnlyWd == DashIdle /\ ComboIdle /\ LcIdle /\ DecIdle /\ TblIdle /\ EntIdle /\ ThIdle /\ BatchIdle /\ TechIdle /\ SdiIdle

\* ------------------------------------------------------------------------
\* Games fed to l_cancel_compute: LcLen frames, each with its buttons, its
\* hitlag bit and its L-cancel status.
LcLen == 18

InitLc ==
    /\ lc_n = LcLen
    /\ lc_last_held \in BOOLEAN
    /\ lc_prev_held = lc_last_held
    /\ lc_i = 0
    /\ trigger_input_frame = TriggerUnbound
    /\ during_hitlag = FALSE
    /\ lc_built = << >>
    /\ l_cancels = << >>
    /\ lc_pc = "run"
    /\ lc_error = ""
    /\ OnlyLc

LCancelComputeStep ==
    \E held \in BOOLEAN, hitlag \in BOOLEAN, l_cancel \in {NOT_APPLICABLE, SUCCESS, FAILURE},
       held_after \in [1..5 -> BOOLEAN] :
        /\ l_cancel = NOT_APPLICABLE => held_after = [j \in 1..5 |-> FALSE]
        /\ LCancelFrame(held, hitlag, l_cancel, held_after)

NextLc == LCancelComputeStep

SpecLc == InitLc /\ [][NextLc]_vars

\* C4: every record l_cancel_compute builds for a landing whose
\* trigger_input_frame is not None has it within [-15, 25].
C4_TriggerInWindow ==
    \A k \in 1..Len(lc_built) :
        lc_built[k].trigger_input_frame.kind = "int" =>
            /\ -15 <= lc_built[k].trigger_input_frame.v
            /\ lc_built[k].trigger_input_frame.v <= 25

\* C28: no landing stops the pass, and every landing walked has exactly one
\* record in player.stats.l_cancels, at its frame index and with the offset
\* computed for it.
C28_OneRecordPerLanding ==
    /\ lc_pc # "raised"
    /\ Len(l_cancels) = Len(lc_built)
    /\ \A k \in 1..Len(l_cancels) :
           /\ l_cancels[k].frame_index = lc_built[k].frame_index
           /\ l_cancels[k].trigger_input_frame = lc_built[k].trigger_input_frame

\* C29: a record built for a successful landing (no late scan) has a null
\* offset when the press lies more than 15 frames before the landing and was
\* not made in hitlag, or 25 or more frames before it.
C29_UnintentionalDiscarded ==
    \A k \in 1..Len(lc_built) :
        LET rec == lc_built[k]
            early == -rec.trigger_input_frame.v
        IN  (rec.l_cancel /\ rec.trigger_input_frame.kind = "int") =>
                ~((early > 15 /\ ~rec.during_hitlag) \/ early >= 25)

\* C30: the record built for a landing whose most recent press lies at most
\* 15 frames before it carries that press's offset (press frame - i), whether
\* or not a press follows within the next 5 frames.
C30_EarlyBeforeLate ==
    [][Len(lc_built') = Len(lc_built) + 1 =>
           LET pressed == just_input_l_cancel(lc_prev_held', lc_prev_held)
               press_frame == IF pressed THEN lc_i ELSE trigger_input_frame.v
           IN  lc_i - press_frame <= 15 =>
                   lc_built'[Len(lc_built')].trigger_input_frame =
                       TriggerInt(press_frame - lc_i)]_vars

\* ------------------------------------------------------------------------
\* Files fed to parse: the announced length, skip_frames and the path are
\* chosen; the records come as the event loop reads them.
MaxBlobBytes == 4
DecLengths == {0} \cup {TableBytes + k : k \in 0..MaxBlobBytes}

InitDec ==
    /\ dec_length \in DecLengths
    /\ dec_skip_frames \in BOOLEAN
    /\ dec_path \in {"", "game.slp"}
    /\ dec_source = << >>
    /\ dec_pos = 0
    /\ dec_loop = [total_size |-> 0, bytes_read |-> 0, event_is_end |-> FALSE,
                   current_frame |-> NoFrame]
    /\ dec_reads = << >>
    /\ dec_calls = << >>
    /\ dec_pc = "start"
    /\ dec_error = NoError
    /\ OnlyDec

NextDec == ParseBegin \/ ParseEventsStep \/ ParseEventsExit

SpecDec == InitDec /\ [][NextDec]_vars

\* The frames handed to the Frame handler, in call order.
FrameCalls == SelectSeq(dec_calls, LAMBDA c : c.handler = "Frame")

\* The reads of a code the payload-size table does not list.
UnknownReads == {k \in 1..Len(dec_reads) : dec_reads[k].code \notin DOMAIN payload_sizes \cup {"EOF"}}

\* C8: the event loop reads a record only while no end-of-game record has
\* been decoded and the announced blob length, when it is not 0, is not yet
\* used up.
C8_StopsAtEndOrLength ==
    \A k \in 1..Len(dec_reads) :
        /\ \A m \in 1..(k - 1) : dec_reads[m].code # "GAME_END"
        /\ dec_length = 0 \/ dec_reads[k].pos < dec_length

\* C9: the indices of the frames handed to the Frame handler rise by exactly
\* one from each frame to the next.
C9_FrameIndicesConsecutive ==
    \A k \in 1..(Len(FrameCalls) - 1) : FrameCalls[k + 1].index = FrameCalls[k].index + 1

LastRead(reads) == reads[Len(reads)]

\* C12: a step that reads a record whose code the payload-size table lists
\* but no decoder is registered for consumes the code byte and the declared
\* payload length, invokes no handler and raises no error.
C12_UndecodedSkipped ==
    [][(Len(dec_reads') = Len(dec_reads) + 1 /\ LastRead(dec_reads').code = "SPLIT") =>
           /\ dec_pos' = dec_pos + 1 + payload_sizes["SPLIT"]
           /\ dec_loop'.bytes_read = dec_loop.bytes_read + 1 + payload_sizes["SPLIT"]
           /\ dec_calls' = dec_calls
           /\ dec_pc' = "events"
           /\ dec_error' = NoError]_vars

\* An undecoded record has been skipped after the Start record: the decoder
\* stands behind its payload, still decoding, Start being the only call.
C12_Witness ==
    /\ dec_pc = "events"
    /\ Len(dec_reads) = 2
    /\ LastRead(dec_reads).code = "SPLIT"
    /\ dec_pos = LastRead(dec_reads).pos + 1 + payload_sizes["SPLIT"]
    /\ dec_calls = <<PlainCall("Start")>>
    /\ dec_error = NoError

\* C14: the handlers are invoked in the arrival order of the records: Start
\* before every Frame, Frames by ascending index, every Frame before the End
\* of the end-of-game record that follows it in the stream, and the two
\* metadata handlers after every event handler.
C14_HandlersInArrivalOrder ==
    \A j, k \in 1..Len(dec_calls) :
        j < k =>
            LET first == dec_calls[j]
                second == dec_calls[k]
            IN  /\ ~(first.handler = "Frame" /\ second.handler = "Start")
                /\ (first.handler = "Frame" /\ second.handler = "Frame") =>
                       first.index < second.index
                /\ ~(first.handler = "End" /\ second.handler = "Frame")
                /\ first.handler \in {"dict", "Metadata"} =>
                       second.handler \in {"dict", "Metadata"}

\* The frame records read, and the frame indices they carry.
FrameReads == SelectSeq(dec_reads, LAMBDA r : r.code \in FrameCodes)
FrameIndicesRead == {FrameReads[k].frame : k \in 1..Len(FrameReads)}
RecordsOfFrame(index) == SelectSeq(FrameReads, LAMBDA r : r.frame = index)

\* The stream read so far holds frame records only, between the Start and
\* the end-of-game record, and is decoded without skip_frames.
OnlyFrameRecords ==
    /\ ~dec_skip_frames
    /\ \A k \in 1..Len(dec_reads) : dec_reads[k].code \in BuiltCodes

\* C21: in a stream of frame records every run of records of one frame index
\* yields exactly one Frame: while the loop runs, the frames handed over and
\* the open frame are the frames read, each once and with all its records;
\* when parse returns, every frame read has been handed over.
C21_OneFramePerRun ==
    (OnlyFrameRecords /\ dec_pc \in {"events", "returned"}) =>
        LET open == dec_loop.current_frame
            emitted == {FrameCalls[k].index : k \in 1..Len(FrameCalls)}
        IN  /\ \A j, k \in 1..Len(FrameCalls) :
                   j # k => FrameCalls[j].index # FrameCalls[k].index
            /\ \A k \in 1..Len(FrameCalls) :
                   Len(FrameCalls[k].parts) = Len(RecordsOfFrame(FrameCalls[k].index))
            /\ dec_pc = "returned" =>
                   /\ emitted = FrameIndicesRead
                   /\ Len(FrameCalls) = Cardinality(FrameIndicesRead)
            /\ (dec_pc = "events" /\ open = NoFrame) => emitted = FrameIndicesRead
            /\ (dec_pc = "events" /\ open # NoFrame) =>
                   /\ open.index \notin emitted
                   /\ emitted \cup {open.index} = FrameIndicesRead

\* Two frames of two records each, then the end-of-game record: parse has
\* returned and the Frame handler was called once for each.
C21_Witness ==
    /\ dec_pc = "returned"
    /\ OnlyFrameRecords
    /\ Len(FrameReads) = 4
    /\ FrameIndicesRead = {0, 1}
    /\ Len(FrameCalls) = 2
    /\ Len(FrameCalls[1].parts) = 2
    /\ Len(FrameCalls[2].parts) = 2

\* The step just taken read a record that has no entry in BUILD_GAME_DISPATCH.
SkipsUndecoded ==
    /\ Len(dec_reads') = Len(dec_reads) + 1
    /\ LastRead(dec_reads').code = "SPLIT"
    /\ dec_pc' = "events"

\* The stream read holds frame records and undecoded records only, and every
\* frame read was handed over once, with all its records.
FramesWholeDespiteSkips ==
    (/\ dec_pc = "returned"
     /\ ~dec_skip_frames
     /\ \A k \in 1..Len(dec_reads) : dec_reads[k].code \in BuiltCodes \cup {"SPLIT"}) =>
        \A index \in FrameIndicesRead :
            \E k \in 1..Len(FrameCalls) :
                /\ FrameCalls[k].index = index
                /\ Len(FrameCalls[k].parts) = Len(RecordsOfFrame(index))
                /\ \A j \in 1..Len(FrameCalls) : FrameCalls[j].index = index => j = k

\* C39: skipping a record without a decoder leaves the open frame as it is,
\* so the records of one frame index received before and after it end up in
\* one Frame, which is handed over exactly once.
C39_SkipKeepsOpenFrame ==
    /\ [][SkipsUndecoded => dec_loop'.current_frame = dec_loop.current_frame]_vars
    /\ []FramesWholeDespiteSkips

\* ------------------------------------------------------------------------
\* Complete captures given in full: a Start record, up to MaxBodyRecords
\* records of frames (in the order NextFrameRecords allows) and of undecoded
\* codes, and the end-of-game record; the announced length is the length of
\* the table and the records.
MaxBodyRecords == 3

BodyRecords ==
    {[code |-> c, frame |-> f] : c \in FrameCodes, f \in 0..(MaxBodyRecords - 1)}
    \cup {[code |-> "SPLIT", frame |-> NoPos]}

IsBody(body) ==
    \A k \in 1..Len(body) :
        body[k] \in NextFrameRecords(SubSeq(body, 1, k - 1))
                     \cup {[code |-> "SPLIT", frame |-> NoPos]}

CompleteSources ==
    {<<[code |-> "GAME_START", frame |-> NoPos]>> \o body
         \o <<[code |-> "GAME_END", frame |-> NoPos]>> :
             body \in {b \in SeqsUpTo(BodyRecords, MaxBodyRecords) : IsBody(b)}}

InitSkip ==
    /\ dec_source \in CompleteSources
    /\ dec_length = RecordOffset(dec_source, Len(dec_source) + 1)
    /\ dec_skip_frames \in BOOLEAN
    /\ dec_path = "game.slp"
    /\ dec_pos = 0
    /\ dec_loop = [total_size |-> 0, bytes_read |-> 0, event_is_end |-> FALSE,
                   current_frame |-> NoFrame]
    /\ dec_reads = << >>
    /\ dec_calls = << >>
    /\ dec_pc = "start"
    /\ dec_error = NoError
    /\ OnlyDec

NextSkip == ParseBegin \/ ParseSourceStep \/ ParseEventsExit

SpecSkip == InitSkip /\ [][NextSkip]_vars

\* The calls of the Start, End and metadata handlers, in order.
NonFrameCalls == SelectSeq(dec_calls, LAMBDA c : c.handler # "Frame")

\* C15: a parse of a complete capture with a nonzero announced length fails
\* only where a record's decoder, the preamble or the metadata fails.  When
\* it returns, with or without skip_frames, the Start handler has been given
\* the record behind the table, the End handler the last record of the blob,
\* and the metadata handlers what follows the blob; with skip_frames no other
\* record has been read and the Frame handler has not been invoked.
C15_SkipFramesSameHandlers ==
    /\ dec_pc = "raised" => dec_error.cause \in {"preamble", "decode", "metadata"}
    /\ dec_pc = "returned" =>
           /\ NonFrameCalls = <<PlainCall("Start"), PlainCall("End"),
                                PlainCall("dict"), PlainCall("Metadata")>>
           /\ dec_reads[1] = [code |-> "GAME_START", frame |-> NoPos, pos |-> TableBytes]
           /\ LastRead(dec_reads) =
                  [code |-> "GAME_END", frame |-> NoPos,
                   pos |-> dec_length - 1 - payload_sizes["GAME_END"]]
           /\ dec_pos = dec_length
           /\ dec_skip_frames => (Len(dec_reads) = 2 /\ dec_calls = NonFrameCalls)

\* A capture with three frame records has been parsed with skip_frames: the
\* decoder read the Start and the End record only and returned.
C15_Witness ==
    /\ dec_pc = "returned"
    /\ dec_skip_frames
    /\ dec_length # 0
    /\ Len(dec_source) = 5
    /\ \A k \in 2..4 : dec_source[k].code \in FrameCodes
    /\ Len(dec_reads) = 2
    /\ dec_calls = <<PlainCall("Start"), PlainCall("End"),
                     PlainCall("dict"), PlainCall("Metadata")>>

\* ------------------------------------------------------------------------
\* Calls of the classifier entry points: with or without a connect code, with
\* or without a player, on captures of four versions and MaxEntryFrames
\* frames.
MaxEntryFrames == 3
EntryPoints ==
    {"combo_compute", "wavedash_compute", "dash_compute", "tech_compute",
     "take_hit_compute", "l_cancel_compute"}
EntryVersions == {<<1, 7, 1>>, <<2, 0, 0>>, <<3, 4, 0>>, <<3, 5, 0>>}

InitEnt ==
    /\ ent_fn \in EntryPoints
    /\ ent_connect_code \in {"", "NUT#356"}
    /\ ent_player \in BOOLEAN
    /\ ent_version \in EntryVersions
    /\ ent_checks = DefaultEntryChecks
    /\ ent_warnings = << >>
    /\ ent_frames_read = 0
    /\ ent_appended = 0
    /\ ent_pc = "called"
    /\ ent_error = ""
    /\ OnlyEnt

EntryFrameStep == \E appends \in 0..1 : EntryFrame(MaxEntryFrames, appends)

NextEnt ==
    \/ ComboEntry
    \/ WavedashEntry
    \/ DashEntry
    \/ TechEntry
    \/ TakeHitEntry
    \/ LCancelEntry
    \/ EntryFrameStep

SpecEnt == InitEnt /\ [][NextEnt]_vars

\* C16: an entry point called with neither a connect code nor a player has
\* raised ValueError once it has acted, with no frame read, no record
\* appended and no warning emitted.
C16_NoArgumentsValueError ==
    (ent_pc # "called" /\ ent_connect_code = "" /\ ~ent_player) =>
        /\ ent_pc = "raised"
        /\ ent_error = "ValueError"
        /\ ent_frames_read = 0
        /\ ent_appended = 0
        /\ ent_warnings = << >>

\* l_cancel_compute was called without arguments on a capture older than
\* 2.0.0: the argument test came first.
C16_Witness ==
    /\ ent_fn = "l_cancel_compute"
    /\ ent_connect_code = ""
    /\ ~ent_player
    /\ VersionLess(ent_version, <<2, 0, 0>>)
    /\ ent_pc = "raised"
    /\ ent_error = "ValueError"

\* ------------------------------------------------------------------------
\* Games fed to take_hit_compute: ThLen frames, each with its hitlag bit,
\* whether the player shields, the percent and the joystick position, on a
\* fresh computer (__init__: take_hit_state = None) with an empty list.
ThLen == 3
ThSticks == {<<1, 2>>, <<2, 2>>}
ThFrames == [hitlag : BOOLEAN, shield : BOOLEAN, percent : 0..1, joystick : ThSticks]
ThVersions == {<<1, 7, 1>>, <<3, 4, 0>>, <<3, 5, 0>>}

InitTh ==
    /\ th_version \in ThVersions
    /\ th_knockback_check = TRUE
    /\ th_frames \in [1..ThLen -> ThFrames]
    /\ th_i = 0
    /\ take_hit_state = NoneRec
    /\ take_hits = << >>
    /\ th_warnings = << >>
    /\ th_pc = "called"
    /\ th_error = ""
    /\ OnlyTh

NextTh == TakeHitBegin \/ TakeHitFrame

SpecTh == InitTh /\ [][NextTh]_vars

\* C18, for take_hit_compute: no step of the pass changes a field of a frame
\* of the player's frame array.
C18_FramesUnchanged == [][th_frames' = th_frames]_vars

\* The active window of a frame: in hitlag and not shielding.
InWindow(frame) == frame.hitlag /\ ~frame.shield

\* C32: from frame 1 on, a frame in the window that follows a frame outside
\* it with a lower percent opens a record at its index; a frame in the window
\* with a record open adds one joystick region and 1 to hitlag_frames; the
\* first frame outside the window with a record open appends the record to
\* take_hits once and clears the accumulator.
C32_TakeHitRecords ==
    [][(th_pc = "run" /\ th_i >= 1) =>
           LET frame == th_frames[th_i + 1]
               prev == th_frames[th_i]
               opened == InWindow(frame) /\ ~InWindow(prev) /\ frame.percent > prev.percent
           IN  /\ opened =>
                      /\ take_hit_state' # NoneRec
                      /\ take_hit_state'.frame_index = th_i
                      /\ take_hit_state'.hitlag_frames = 1
               /\ (InWindow(frame) /\ ~opened /\ take_hit_state # NoneRec) =>
                      /\ take_hit_state'.hitlag_frames = take_hit_state.hitlag_frames + 1
                      /\ Len(take_hit_state'.stick_regions_during_hitlag) =
                             Len(take_hit_state.stick_regions_during_hitlag) + 1
               /\ (~InWindow(frame) /\ take_hit_state # NoneRec) =>
                      /\ Len(take_hits') = Len(take_hits) + 1
                      /\ take_hits'[Len(take_hits')].frame_index = take_hit_state.frame_index
                      /\ take_hit_state' = NoneRec]_vars

\* C19, for take_hit_compute: on a capture older than 3.5.0 the pass does
\* not raise and emits one warning; older than 2.0.0 it returns the list with
\* no record added; from 2.0.0 on, every record it has built has its
\* knockback and DI results null.
C19_OldCapturesDegrade ==
    (VersionLess(th_version, <<3, 5, 0>>) /\ th_pc # "called") =>
        /\ th_pc # "raised"
        /\ Len(th_warnings) = 1
        /\ VersionLess(th_version, <<2, 0, 0>>) => (th_pc = "returned" /\ take_hits = << >>)
        /\ take_hit_state # NoneRec =>
               /\ take_hit_state.kb_velocity = "None"
               /\ take_hit_state.kb_angle = "None"
               /\ take_hit_state.final_kb_velocity = "None"
               /\ take_hit_state.final_kb_angle = "None"
               /\ take_hit_state.di_efficacy = "None"

\* ------------------------------------------------------------------------
\* Batches of up to MaxBatchFiles .slp files, every file submitted to the
\* pool (lines 620-624).
MaxBatchFiles == 3

InitBatch ==
    /\ batch_files \in UNION {[1..n -> FileKinds] : n \in 1..MaxBatchFiles}
    /\ futures = [f \in 1..Len(batch_files) |-> Pending]
    /\ completed = << >>
    /\ batch_handled = 0
    /\ batch_count = 0
    /\ dfs = NoDfs
    /\ batch_printed = << >>
    /\ batch_pc = "collect"
    /\ batch_error = ""
    /\ OnlyBatch

WorkerStep == \E file \in 1..Len(batch_files) : WorkerDone(file)

NextBatch == WorkerStep \/ Collect \/ Finish

SpecBatch == InitBatch /\ [][NextBatch]_vars

\* The files whose worker has returned a result.
Succeeded == {f \in 1..Len(batch_files) : futures[f] # Pending /\ futures[f].exception = ""}

\* C20: a file is collected only after its worker is done, and once every
\* future has been collected the batch run ends with a final output that
\* accounts for every file whose worker succeeded.
C20_BatchMergesSucceeded ==
    /\ batch_handled <= Len(completed)
    /\ \A k \in 1..Len(completed) : futures[completed[k]] # Pending
    /\ batch_pc # "raised"
    /\ batch_pc = "returned" => batch_count = Cardinality(Succeeded)

\* ------------------------------------------------------------------------
\* Table records fed to _parse_event_payloads: up to MaxTableEntries entries
\* with payload lengths up to MaxPayload; 0xfe and 0xff stand for codes that
\* EventType does not have.
MaxTableEntries == 3
MaxPayload == 2
TableCodes == {"GAME_START", "GAME_END", "0xfe", "0xff"}

InitTbl ==
    /\ tbl_code \in {"EVENT_PAYLOADS", "GAME_START", "0xff"}
    /\ tbl_this_size \in 0..(3 * MaxTableEntries + 1)
    /\ tbl_i = 0
    /\ tbl_read = << >>
    /\ sizes = NoSizes
    /\ tbl_log = << >>
    /\ tbl_pc = "start"
    /\ tbl_error = ""
    /\ OnlyTbl

TableEntryStep ==
    \E code \in TableCodes \cup {"EOF"}, size \in 1..MaxPayload :
        /\ code = "EOF" => size = 1
        /\ TableEntry(code, size)

NextTbl == TableBegin \/ TableEntryStep \/ TableReturn

SpecTbl == InitTbl /\ [][NextTbl]_vars

\* C13: a step that reads a table entry whose code EventType does not have
\* records the entry's size under that code, logs "ignoring unknown event
\* type" for it once, goes on to the next entry and raises no error.
C13_UnknownTypeLogged ==
    [][(Len(tbl_read') = Len(tbl_read) + 1
        /\ LastRead(tbl_read').code \in {"0xfe", "0xff"}) =>
           LET entry == LastRead(tbl_read')
           IN  /\ entry.code \in DOMAIN sizes'
               /\ sizes'[entry.code] = entry.size
               /\ \A c \in DOMAIN sizes : c # entry.code => sizes'[c] = sizes[c]
               /\ tbl_log' = Append(tbl_log, [level |-> "INFO",
                                               message |-> "ignoring unknown event type",
                                               code |-> entry.code])
               /\ tbl_i' = tbl_i + 1
               /\ tbl_pc' = "table"
               /\ tbl_error' = ""]_vars

\* A table of three entries, the second of an unknown code, has been read to
\* its end: one line is logged, the unknown code has its size, and so has the
\* known code read after it.
C13_Witness ==
    /\ tbl_pc = "returned"
    /\ Len(tbl_read) = 3
    /\ tbl_read[1].code = "GAME_START"
    /\ tbl_read[2] = [code |-> "0xff", size |-> 2]
    /\ tbl_read[3] = [code |-> "GAME_END", size |-> 1]
    /\ Len(tbl_log) = 1
    /\ tbl_log[1].code = "0xff"
    /\ sizes["0xff"] = 2
    /\ sizes["GAME_END"] = 1

\* ------------------------------------------------------------------------
\* Games fed to combo_compute.

\* State ages of consecutive frames: a frame in the same action state as the
\* one before it is one older or has restarted; a new action state starts at 0.
NextAges(prev_post, state) ==
    IF prev_post.state = state THEN {0, prev_post.state_age + 1} ELSE {0}

\* Stocks never come back, and a percent only drops when a stock is lost.
FollowsOn(prev_post, post) ==
    /\ post.stocks_remaining <= prev_post.stocks_remaining
    /\ IF post.stocks_remaining < prev_post.stocks_remaining
       THEN post.percent = 0
       ELSE post.percent >= prev_post.percent

\* Number of frames of the games walked by SpecCombo.
ComboLen == 4
ComboPlayerStates == {WAIT, ATTACK_11}
ComboStocks == {1, 2}
ComboPercents == {0, 10}
\* (action state, hitstun bit) of the opponent
ComboOpponentKinds == {<<WAIT, FALSE>>, <<DAMAGE_HI_1, TRUE>>}

ComboPlayerPosts ==
    {PlayerPost(s, a, k) : s \in ComboPlayerStates, a \in 0..(ComboLen - 1), k \in ComboStocks}

ComboOpponentPosts ==
    {OpponentPost(sk[1], sk[2], pc, k) : sk \in ComboOpponentKinds, pc \in ComboPercents, k \in ComboStocks}

InitCombo ==
    /\ \E pl \in ComboPlayerPosts, ol \in ComboOpponentPosts :
           ComboStart(ComboLen, [p |-> pl, o |-> ol])
    /\ OnlyCombo

\* One iteration of combo_compute on any next frame pair.
ComboComputeStep ==
    \E pp \in ComboPlayerPosts, op \in ComboOpponentPosts :
        /\ combo_i > 0 => /\ pp.state_age \in NextAges(combo_prev.p, pp.state)
                          /\ pp.stocks_remaining <= combo_prev.p.stocks_remaining
                          /\ FollowsOn(combo_prev.o, op)
        /\ ComboFrame(pp, op)

NextCombo == ComboComputeStep

SpecCombo == InitCombo /\ [][NextCombo]_vars

\* The ten-frame game: the attacker stays in one action state whose age is
\* the frame number, nobody loses a stock, and the opponent's percent rises on
\* frames 3 and 4 only, where the opponent is in a damage state.
ScenarioPercent(i) ==
    IF i <= 2 THEN combo_last.o.percent - 2
    ELSE IF i = 3 THEN combo_last.o.percent - 1
    ELSE combo_last.o.percent

InitComboScenario ==
    /\ \E s \in ComboPlayerStates, k \in ComboStocks, sk \in ComboOpponentKinds,
          pc \in {2, 12}, ok \in ComboStocks :
           ComboStart(10, [p |-> PlayerPost(s, 9, k), o |-> OpponentPost(sk[1], sk[2], pc, ok)])
    /\ OnlyCombo

ComboScenarioStep ==
    \E sk \in ComboOpponentKinds :
        /\ combo_i \in {3, 4} => sk = <<DAMAGE_HI_1, TRUE>>
        /\ ComboFrame(PlayerPost(combo_last.p.state, combo_i, combo_last.p.stocks_remaining),
                      OpponentPost(sk[1], sk[2], ScenarioPercent(combo_i),
                                   combo_last.o.stocks_remaining))

NextComboScenario == ComboScenarioStep

SpecComboScenario == InitComboScenario /\ [][NextComboScenario]_vars

\* A long game with few hits: the attacker holds one action state, nobody
\* loses a stock, and the opponent is in a damage state exactly on the frames
\* of a hit, each of which adds one percent, up to LongMaxPercent in all.
LongMaxPercent == 1
LongLen == ComboBackdate + 3

InitComboLong ==
    /\ \E os \in {WAIT, DAMAGE_HI_1}, pc \in 0..LongMaxPercent :
           ComboStart(LongLen, [p |-> PlayerPost(ATTACK_11, LongLen - 1, 2),
                                o |-> OpponentPost(os, os = DAMAGE_HI_1, pc, 2)])
    /\ OnlyCombo

ComboLongStep ==
    \E d \in {0, 1} :
        LET before == IF combo_i = 0 THEN 0 ELSE combo_prev.o.percent
            os == IF d = 1 THEN DAMAGE_HI_1 ELSE WAIT
        IN  /\ before + d <= LongMaxPercent
            /\ ComboFrame(PlayerPost(ATTACK_11, combo_i, 2),
                          OpponentPost(os, os = DAMAGE_HI_1, before + d, 2))

NextComboLong == ComboLongStep

SpecComboLong == InitComboLong /\ [][NextComboLong]_vars

\* C1: a fresh ComboComputer run over the ten-frame game (percent rising on
\* frames 3 and 4, one attacker state of increasing age) returns exactly one
\* combo, which holds exactly one move with hit_count = 2.
C1_TwoHitsOneMove ==
    combo_pc = "returned" =>
        /\ Len(Combos) = 1
        /\ Len(Combos[1].moves) = 1
        /\ Combos[1].moves[1].hit_count = 2

\* C2: every combo of the returned list has end_frame >= start_frame, closed
\* or still active at the last frame.
C2_EndNotBeforeStart ==
    combo_pc = "returned" =>
        \A k \in 1..Len(Combos) : Combos[k].end_frame >= Combos[k].start_frame

\* C3: every combo of the returned list with total_damage() > 0 has a
\* non-empty moves list.
C3_DamageHasMoves ==
    combo_pc = "returned" =>
        \A k \in 1..Len(Combos) : total_damage(Combos[k]) > 0 => Len(Combos[k].moves) > 0

\* The dash scenario: a game of DashLen frames whose player does not dash on
\* frame 4, dashes on frames 5..8, turns on frame 9 and dashes again on
\* frame 10; every other frame is free.  The computer is fresh (__init__:
\* dash_state = None) and the player's dash list is empty.
DashScenarioFrames ==
    {f \in [1..DashLen -> DashStates] :
        /\ f[4 + 1] # DASH
        /\ \A k \in 5..8 : f[k + 1] = DASH
        /\ f[9 + 1] = TURN
        /\ f[10 + 1] = DASH}

InitDashScenario ==
    /\ dash_frames \in DashScenarioFrames
    /\ dash_i = 0
    /\ dash_state = NoneRec
    /\ dashes = << >>
    /\ dash_pc = "run"
    /\ OnlyDash

NextDash == DashComputeStep

SpecDashScenario == InitDashScenario /\ [][NextDash]_vars

\* C40: what a pass decides on frame 0 depends on frame 0 alone, not on the
\* last frames of the game.  A pass over a game that does not begin in DASH
\* and does not end in DASH leaves frame 0 with no dash open and none
\* recorded, so it does so for every game that does not begin in DASH.
C40_FirstFrameCausal ==
    [][(dash_pc = "run" /\ dash_i = 0 /\ DashFrameState(0) # DASH) =>
           /\ dash_pc' = "run"
           /\ dash_i' = 1
           /\ dash_state' = NoneRec
           /\ dashes' = << >>]_vars

\* The dash that starts on frame 10 is left again on a later frame.
DashExitsAfter10 == \E k \in 11..(Len(dash_frames) - 1) : dash_frames[k + 1] # DASH

C17_DashPassNeverRaises == dash_pc # "raised"

\* ------------------------------------------------------------------------
\* Games of CheckLen frames in which nobody is hit or loses a stock and the
\* opponent shows, frame by frame, one of the conditions combo_compute tests:
\* an action state of one of the ranges, or one of the bits and position
\* tests on an otherwise idle frame.
CheckLen == 3

CheckStates ==
    {WAIT, DAMAGE_HI_1, CAPTURE_START, COMMAND_GRAB_RANGE1_START, GUARD_START,
     DOWN_START, TECH_START, DODGE_START, DYING_START, LEDGE_ACTION_START,
     GUARD_BREAK_START, FALL_SPECIAL_START, LAND_FALL_SPECIAL}

CheckFlags == {"none", "hitstun", "hitlag", "offstage", "juggled"}

CheckPost(state, flag, wavedashing) ==
    [state |-> state, hitstun |-> flag = "hitstun", hitlag |-> flag = "hitlag",
     offstage |-> flag = "offstage", juggled |-> flag = "juggled",
     wavedashing |-> wavedashing, percent |-> 0, stocks_remaining |-> 2]

CheckOpponentPosts ==
    {CheckPost(s, "none", FALSE) : s \in CheckStates}
    \cup {CheckPost(WAIT, f, FALSE) : f \in CheckFlags}
    \cup {CheckPost(DODGE_START, "none", TRUE)}

InitComboReset ==
    /\ \E ol \in CheckOpponentPosts :
           ComboStart(CheckLen, [p |-> PlayerPost(WAIT, CheckLen - 1, 2), o |-> ol])
    /\ OnlyCombo

ComboCheckStep ==
    \E op \in CheckOpponentPosts : ComboFrame(PlayerPost(WAIT, combo_i, 2), op)

NextComboReset == ComboCheckStep

SpecComboReset == InitComboReset /\ [][NextComboReset]_vars

\* The conditions C22 lists, for the opponent's frame and the frame before.
ListedCondition(post, prev_post) ==
    \/ is_damaged(post.state)
    \/ is_grabbed(post.state)
    \/ is_cmd_grabbed(post.state)
    \/ is_in_hitlag(post)
    \/ is_in_hitstun(post)
    \/ is_offstage(post)
    \/ (is_dodging(post.state) /\ ~is_wavedashing(post))
    \/ is_dying(post.state)
    \/ is_downed(post.state)
    \/ is_teching(post.state)
    \/ is_ledge_action(post.state)
    \/ is_shield_broken(post.state)
    \/ is_maybe_juggled(post)
    \/ is_special_fall(post.state)
    \/ is_upb_lag(post.state, prev_post.state)

\* C22, as the classifier has it: on a frame walked with an active combo and
\* all checks switched on, reset_counter becomes 0 when the opponent meets
\* one of the listed conditions or is shielding, and rises by 1 otherwise.
C22_ResetCounterWithShield ==
    [][(combo_i' = combo_i + 1 /\ combo_state.combo # NoCombo) =>
           combo_state'.reset_counter =
               IF ListedCondition(combo_prev'.o, combo_prev.o)
                  \/ is_shielding(combo_prev'.o.state)
               THEN 0
               ELSE combo_state.reset_counter + 1]_vars

\* C22, as stated: on a frame walked with an active combo, reset_counter
\* becomes 0 when the opponent meets one of the listed conditions, and rises
\* by 1 otherwise.
C22_ResetCounterAsListed ==
    [][(combo_i' = combo_i + 1 /\ combo_state.combo # NoCombo) =>
           combo_state'.reset_counter =
               IF ListedCondition(combo_prev'.o, combo_prev.o)
               THEN 0
               ELSE combo_state.reset_counter + 1]_vars

\* Two idle frames have raised the counter to 2, and a frame on which the
\* opponent shields has set it back to 0.
C22_Witness ==
    /\ combo_i = 3
    /\ combo_pc = "returned"
    /\ combo_state.combo # NoCombo
    /\ is_shielding(combo_prev.o.state)
    /\ combo_state.reset_counter = 0

\* ------------------------------------------------------------------------
\* Games a few frames longer than the leniency, in which the opponent is idle,
\* shields or is hit on each frame and the acting player may lose a stock on
\* one of the first frames.
TimeoutSlack == 4
TimeoutLen == COMBO_LENIENCY + TimeoutSlack

TimeoutOpponentPosts ==
    {CheckPost(WAIT, "none", FALSE), CheckPost(GUARD_START, "none", FALSE),
     CheckPost(DAMAGE_HI_1, "hitstun", FALSE)}

InitComboTimeout ==
    /\ \E ol \in TimeoutOpponentPosts, st \in ComboStocks :
           ComboStart(TimeoutLen, [p |-> PlayerPost(WAIT, TimeoutLen - 1, st), o |-> ol])
    /\ OnlyCombo

ComboTimeoutStep ==
    \E op \in TimeoutOpponentPosts, st \in ComboStocks :
        /\ st >= combo_last.p.stocks_remaining
        /\ combo_i > 0 => st <= combo_prev.p.stocks_remaining
        /\ combo_i >= TimeoutSlack => st = combo_prev.p.stocks_remaining
        /\ ComboFrame(PlayerPost(WAIT, combo_i, st), op)

NextComboTimeout == ComboTimeoutStep

SpecComboTimeout == InitComboTimeout /\ [][NextComboTimeout]_vars

\* A frame is being walked with a combo that is active or opened by it.
WalksActiveCombo ==
    /\ combo_i' = combo_i + 1
    /\ combo_state.combo # NoCombo \/ ComboHitCondition(combo_prev'.o, combo_checks)

\* Somebody's stock count drops on the frame being walked.
StockLostOnFrame ==
    \/ did_lose_stock(combo_prev'.p, combo_prev.p)
    \/ did_lose_stock(combo_prev'.o, combo_prev.o)

\* C23: on a frame without stock loss an active combo is ended exactly when
\* reset_counter exceeds 45; the counter then stands at 46, having been 45
\* after the frame before, and the opponent meets no reset condition on the
\* frame; so a combo whose opponent meets a reset condition within every 45
\* frames, with no stock loss, is not ended.
C23_TimeoutAtLeniency ==
    [][(WalksActiveCombo /\ ~StockLostOnFrame) =>
           /\ combo_state'.combo = NoCombo <=> combo_state'.reset_counter > COMBO_LENIENCY
           /\ combo_state'.reset_counter > COMBO_LENIENCY =>
                  /\ combo_state'.reset_counter = COMBO_LENIENCY + 1
                  /\ combo_state.reset_counter = COMBO_LENIENCY
                  /\ ~ListedCondition(combo_prev'.o, combo_prev.o)
                  /\ ~is_shielding(combo_prev'.o.state)
           /\ combo_state'.reset_counter <= combo_state.reset_counter + 1]_vars

\* A returned combo was opened by a hit and ended by timeout 46 frames later.
C23_Witness ==
    /\ Len(Combos) = 1
    /\ Combos[1].end_frame = Combos[1].start_frame + COMBO_LENIENCY + 1
    /\ combo_state.combo = NoCombo
    /\ combo_state.reset_counter = COMBO_LENIENCY + 1

\* ------------------------------------------------------------------------
\* Games of StockLen frames in which either player may lose stocks, down to
\* the opponent's last one, and the opponent's percent may rise; no frame has
\* more stocks than the one before, so the last frame, which frame 0 is
\* compared with, has the fewest.
StockLen == 5
OpponentStocks == {0, 1, 2}

StockOpponentKinds == {<<WAIT, FALSE>>, <<DAMAGE_HI_1, TRUE>>, <<DYING_START, FALSE>>}

StockOpponentPosts ==
    {OpponentPost(sk[1], sk[2], pc, k) :
        sk \in StockOpponentKinds, pc \in ComboPercents, k \in OpponentStocks}

InitComboStocks ==
    /\ \E ol \in StockOpponentPosts, st \in ComboStocks :
           ComboStart(StockLen, [p |-> PlayerPost(WAIT, StockLen - 1, st), o |-> ol])
    /\ OnlyCombo

ComboStocksStep ==
    \E op \in StockOpponentPosts, st \in ComboStocks :
        /\ st >= combo_last.p.stocks_remaining
        /\ op.stocks_remaining >= combo_last.o.stocks_remaining
        /\ combo_i > 0 => /\ st <= combo_prev.p.stocks_remaining
                          /\ FollowsOn(combo_prev.o, op)
        /\ ComboFrame(PlayerPost(WAIT, combo_i, st), op)

NextComboStocks == ComboStocksStep

SpecComboStocks == InitComboStocks /\ [][NextComboStocks]_vars

\* The combo a walked frame works on: the active one, or the one it opens.
WalkedCombo == IF combo_state.combo # NoCombo THEN combo_state.combo ELSE Len(combo_objs')

\* C24: while a combo is active, a frame on which the opponent's stock count
\* drops ends the combo on that frame with did_kill set, and with
\* did_end_game set exactly when the opponent has 0 stocks left; a frame on
\* which the acting player's stock count drops ends the combo on that frame,
\* with did_kill set only if the opponent lost a stock on it as well.
C24_StockLossEndsCombo ==
    [][WalksActiveCombo =>
           LET opponent_lost == combo_prev'.o.stocks_remaining < combo_prev.o.stocks_remaining
               player_lost == combo_prev'.p.stocks_remaining < combo_prev.p.stocks_remaining
               closed == combo_objs'[WalkedCombo]
           IN  (opponent_lost \/ player_lost) =>
                   /\ combo_state'.combo = NoCombo
                   /\ closed.end_frame = combo_i - ComboBackdate
                   /\ closed.did_kill <=> opponent_lost
                   /\ closed.did_end_game <=>
                          (opponent_lost /\ combo_prev'.o.stocks_remaining = 0)]_vars

\* A returned combo was ended by the loss of the opponent's last stock.
C24_Witness ==
    /\ combo_state.combo = NoCombo
    /\ \E k \in 1..Len(Combos) :
           /\ Combos[k].did_kill
           /\ Combos[k].did_end_game
           /\ Combos[k].end_frame = (combo_i - 1) - ComboBackdate
    /\ combo_prev.o.stocks_remaining = 0

\* C25: a combo ended at array index i gets end_frame = i - 123 and the
\* opponent's percent of frame i - 1 as end_percent, and no later frame of the
\* pass changes a combo that is not the active one, its move list included.
C25_ClosedComboKept ==
    [][/\ (WalksActiveCombo /\ combo_state'.combo = NoCombo) =>
              /\ combo_objs'[WalkedCombo].end_frame = combo_i - ComboBackdate
              /\ combo_objs'[WalkedCombo].end_percent = combo_prev.o.percent
       /\ \A k \in 1..Len(combo_objs) :
              k # combo_state.combo => combo_objs'[k] = combo_objs[k]]_vars

\* A returned combo with a move was ended at index 3 with the percent of
\* frame 2, and a later frame has opened the next combo.
C25_Witness ==
    /\ Len(Combos) = 2
    /\ Len(Combos[1].moves) = 1
    /\ Combos[1].end_frame = 3 - ComboBackdate
    /\ Combos[1].end_percent = 10
    /\ Combos[1].start_percent = 0

\* C38: at most one combo is active at a time (a combo of the list that is
\* the active one is the last of the list), a combo is appended only while
\* none is active, and consecutive combos of the list do not overlap: the
\* earlier one's end_frame is below the later one's start_frame.
C38_CombosInOrder ==
    /\ [](\A k \in 1..Len(player_combos) :
              /\ combo_state.combo = player_combos[k] => k = Len(player_combos)
              /\ k > 1 => Combos[k - 1].end_frame < Combos[k].start_frame)
    /\ [][player_combos' # player_combos =>
              /\ combo_state.combo = NoCombo
              /\ Len(player_combos') = Len(player_combos) + 1
              /\ \A k \in 1..Len(player_combos) : player_combos'[k] = player_combos[k]
              /\ combo_state'.combo \in {NoCombo, player_combos'[Len(player_combos')]}]_vars

\* Two combos are in the list when the pass returns, the first ended on
\* frame 2 and the second opened on frame 3.
C38_Witness ==
    /\ combo_i = combo_n
    /\ Len(Combos) = 2
    /\ Combos[1].end_frame = 2 - ComboBackdate
    /\ Combos[2].start_frame = 3 - ComboBackdate

\* ------------------------------------------------------------------------
\* Games of MovesLen frames in which the opponent keeps its stocks and takes
\* up to MaxHits hits of 10 percent, none of them on frame 0, and the attacker
\* changes or restarts its action state at will and may lose a stock.
MovesLen == 5
MaxHits == 2
MovesPercents == {10 * h : h \in 0..MaxHits}

InitComboMoves ==
    /\ \E s \in ComboPlayerStates, st \in ComboStocks, pc \in MovesPercents :
           ComboStart(MovesLen, [p |-> PlayerPost(s, 0, st), o |-> OpponentPost(WAIT, FALSE, pc, 2)])
    /\ OnlyCombo

ComboMovesStep ==
    \E s \in ComboPlayerStates, a \in 0..(MovesLen - 1), st \in ComboStocks,
       sk \in ComboOpponentKinds, pc \in MovesPercents :
        LET pp == PlayerPost(s, a, st)
            op == OpponentPost(sk[1], sk[2], pc, 2)
        IN  /\ st >= combo_last.p.stocks_remaining
            /\ pc <= combo_last.o.percent
            /\ IF combo_i = 0
               THEN a = 0 /\ pc = 0 /\ sk[1] = WAIT
               ELSE /\ a \in NextAges(combo_prev.p, s)
                    /\ st <= combo_prev.p.stocks_remaining
                    /\ FollowsOn(combo_prev.o, op)
            /\ ComboFrame(pp, op)

NextComboMoves == ComboMovesStep

SpecComboMoves == InitComboMoves /\ [][NextComboMoves]_vars

\* The opponent's percent rises on the walked frame while the opponent is in
\* one of the states a hit is recognised by.
DamagingFrame ==
    /\ ComboHitCondition(combo_prev'.o, combo_checks)
    /\ combo_prev'.o.percent > combo_prev.o.percent

\* The move list of the combo the walked frame works on, before and after it.
MovesBefore == IF combo_state.combo # NoCombo THEN combo_objs[combo_state.combo].moves ELSE <<>>
MovesAfter == combo_objs'[WalkedCombo].moves

\* The walked frame added one hit and its damage to the last move of the list.
AccruedToOpenMove ==
    /\ Len(MovesBefore) > 0
    /\ MovesAfter =
           [MovesBefore EXCEPT ![Len(MovesBefore)] =
               [@ EXCEPT !.hit_count = @ + 1,
                         !.damage = @ + (combo_prev'.o.percent - combo_prev.o.percent)]]

\* The walked frame appended a new move holding its hit and its damage.
OpenedNewMove ==
    MovesAfter =
        Append(MovesBefore,
               [DefaultMoveLanded EXCEPT
                   !.frame_index = combo_i - ComboBackdate,
                   !.hit_count = 1,
                   !.damage = combo_prev'.o.percent - combo_prev.o.percent])

\* C26: a damaging frame walked with an active combo either adds its hit and
\* damage to the open move or appends a new move holding them; when the move
\* was opened by the frame before, it is the open move that grows exactly if
\* the attacker's action state is the same as on that frame and its state age
\* has not decreased.
C26_MovesAccrue ==
    [][(WalksActiveCombo /\ DamagingFrame) =>
           /\ AccruedToOpenMove \/ OpenedNewMove
           /\ (/\ Len(MovesBefore) > 0
               /\ MovesBefore[Len(MovesBefore)].frame_index = (combo_i - 1) - ComboBackdate) =>
                  (AccruedToOpenMove <=>
                       /\ combo_prev'.p.state = combo_prev.p.state
                       /\ combo_prev'.p.state_age >= combo_prev.p.state_age)]_vars

\* Every ComboData that holds a move is in the player's combo list.
MovesAreListed ==
    \A k \in 1..Len(combo_objs) :
        Len(combo_objs[k].moves) > 0 => \E j \in 1..Len(player_combos) : player_combos[j] = k

\* C36: a new ComboComputer has no active combo before the first frame is
\* walked, and every move recorded during the pass belongs to a combo of
\* the player's combo list.
C36_FreshComputerIdle ==
    /\ combo_i = 0 => combo_state.combo = NoCombo
    /\ MovesAreListed

\* ------------------------------------------------------------------------
\* The games of SpecComboReset, the acting player now losing a stock at will,
\* walked with every switch on, with one switch off, or with every switch off.
NoChecks == [k \in DOMAIN DefaultChecks |-> FALSE]

CheckSettings ==
    {DefaultChecks, NoChecks}
    \cup {[DefaultChecks EXCEPT ![k] = FALSE] : k \in DOMAIN DefaultChecks}

InitComboSwitches ==
    /\ combo_n = CheckLen
    /\ \E ol \in CheckOpponentPosts, st \in ComboStocks :
           combo_last = [p |-> PlayerPost(WAIT, CheckLen - 1, st), o |-> ol]
    /\ combo_prev = combo_last
    /\ combo_i = 0
    /\ combo_checks \in CheckSettings
    /\ combo_state = InitialComboState
    /\ combo_objs = InitialComboObjs
    /\ player_combos = <<>>
    /\ combo_pc = "run"
    /\ OnlyCombo

ComboSwitchStep ==
    \E op \in CheckOpponentPosts, st \in ComboStocks :
        /\ st >= combo_last.p.stocks_remaining
        /\ combo_i > 0 => st <= combo_prev.p.stocks_remaining
        /\ ComboFrame(PlayerPost(WAIT, combo_i, st), op)

NextComboSwitches == ComboSwitchStep

SpecComboSwitches == InitComboSwitches /\ [][NextComboSwitches]_vars

\* The switch of combo_compute that guards the condition a frame of
\* CheckOpponentPosts shows, "none" when the condition has no switch and
\* "idle" when the frame shows no condition.
SwitchOf(post, prev_post) ==
    CASE is_in_hitstun(post) -> "hitstun_check"
      [] is_in_hitlag(post) -> "hitlag_check"
      [] is_offstage(post) -> "offstage_check"
      [] is_maybe_juggled(post) -> "none"
      [] is_teching(post.state) -> "tech_check"
      [] is_downed(post.state) -> "downed_check"
      [] is_dodging(post.state) -> IF is_wavedashing(post) THEN "idle" ELSE "dodge_check"
      [] is_shielding(post.state) -> "shield_check"
      [] is_shield_broken(post.state) -> "shield_break_check"
      [] is_ledge_action(post.state) -> "ledge_check"
      [] post.state = LAND_FALL_SPECIAL ->
             IF is_upb_lag(post.state, prev_post.state) THEN "none" ELSE "idle"
      [] post.state = WAIT -> "idle"
      [] OTHER -> "none"

\* The nine switches there are: a frame showing one condition sets the counter
\* to 0 exactly if the condition has no switch or its own switch is on,
\* whatever the other switches are.
SwitchGuardsOwnCheck ==
    [][(combo_i' = combo_i + 1 /\ combo_state.combo # NoCombo) =>
           LET k == SwitchOf(combo_prev'.o, combo_prev.o)
           IN  combo_state'.reset_counter =
                   IF k # "idle" /\ (k = "none" \/ combo_checks[k])
                   THEN 0 ELSE combo_state.reset_counter + 1]_vars

\* C27: each of the fifteen checks has a switch of its own; so with every
\* switch off no frame sets the counter of an active combo to 0 and no frame
\* starts a combo.
C27_EveryCheckHasSwitch ==
    [][(combo_i' = combo_i + 1 /\ combo_checks = NoChecks) =>
           IF combo_state.combo # NoCombo
           THEN combo_state'.reset_counter = combo_state.reset_counter + 1
           ELSE combo_state'.combo = NoCombo]_vars

\* ------------------------------------------------------------------------
\* The SDI extraction applied to every recorded history of up to MaxHitlag
\* samples (TakeHitData() starts with sdi_inputs = []).
InitSdi ==
    /\ stick_regions_during_hitlag \in SeqsUpTo(JoystickRegion, MaxHitlag)
    /\ sdi_inputs = << >>
    /\ sdi_i = 0
    /\ OnlySdi

NextSdi == FindValidSdiStep

SpecSdi == InitSdi /\ [][NextSdi]_vars

\* The 0-based indices below n whose sample is a candidate of the SDI rule:
\* not the first sample, not the dead zone, and a change of region.
RECURSIVE SdiCandidates(_, _)
SdiCandidates(regions, n) ==
    IF n = 0 THEN << >>
    ELSE LET k == n - 1
             rest == SdiCandidates(regions, k)
         IN  IF k >= 1 /\ regions[k + 1] # DEAD_ZONE /\ regions[k + 1] # regions[k]
             THEN Append(rest, regions[k + 1])
             ELSE rest

\* s is obtained from t by deleting entries.
RECURSIVE IsSubseq(_, _)
IsSubseq(s, t) ==
    IF s = << >> THEN TRUE
    ELSE IF t = << >> THEN FALSE
    ELSE IF Head(s) = Head(t) THEN IsSubseq(Tail(s), Tail(t))
    ELSE IsSubseq(s, Tail(t))

\* C5: for the history [DEAD_ZONE, UP, UP, RIGHT] the finished extraction
\* has sdi_inputs = [UP, RIGHT].
C5_SdiScenario ==
    (SdiDone /\ stick_regions_during_hitlag = <<DEAD_ZONE, UP, UP, RIGHT>>)
        => sdi_inputs = <<UP, RIGHT>>

C5_Witness ==
    /\ SdiDone
    /\ stick_regions_during_hitlag = <<DEAD_ZONE, UP, UP, RIGHT>>
    /\ Len(sdi_inputs) = 2

\* C6: at every point of the extraction, sdi_inputs holds only samples at an
\* index i >= 1 whose region is not the dead zone and differs from the sample
\* at i - 1, each such sample at most once and in order: the first sample is
\* never an entry and a repeated region adds no second entry.
C6_SdiOnlyRegionChanges ==
    IsSubseq(sdi_inputs, SdiCandidates(stick_regions_during_hitlag, sdi_i))

C6_Witness ==
    /\ SdiDone
    /\ Len(stick_regions_during_hitlag) >= 3
    /\ stick_regions_during_hitlag[1] # DEAD_ZONE
    /\ stick_regions_during_hitlag[2] = stick_regions_during_hitlag[3]
    /\ stick_regions_during_hitlag[2] # stick_regions_during_hitlag[1]
    /\ sdi_inputs = <<stick_regions_during_hitlag[2]>>

\* The regions around the circle: cardinals have even numbers, diagonals
\* odd ones, and a diagonal is bordered by the cardinals one position before
\* and after it, counting UP after UP_LEFT.
IsCardinal(region) == region # DEAD_ZONE /\ region % 2 = 0
IsDiagonal(region) == region # DEAD_ZONE /\ region % 2 = 1
Borders(diagonal, cardinal) ==
    \/ cardinal = (diagonal + 1) % 8
    \/ cardinal = (diagonal + 7) % 8

TechLen == 5
TechStates == {WAIT, PASSIVE, PASSIVE_STAND_F, DAMAGE_HI_1}

InitTech ==
    /\ tech_n = TechLen
    /\ tech_last \in TechStates
    /\ tech_prev = tech_last
    /\ tech_i = 0
    /\ tech_state \in {NoneRec, NewTech(0)}
    /\ techs = << >>
    /\ tech_pc = "called"
    /\ tech_error = ""
    /\ OnlyTech

TechComputeStep ==
    \E s \in TechStates :
        /\ tech_i = 0 => ~is_teching(s)
        /\ TechFrame(s)

NextTech == TechBegin \/ TechComputeStep

SpecTech == InitTech /\ [][NextTech]_vars

WdLen == 6
WdFrames == {[state |-> WAIT, trigger |-> FALSE], [state |-> KNEE_BEND, trigger |-> FALSE],
             [state |-> ESCAPE_AIR, trigger |-> TRUE], [state |-> LAND_FALL_SPECIAL, trigger |-> FALSE]}

\* wavedash_compute is called on a decoded game; StatsComputer.__init__ sets
\* wavedash_state to None and player.stats.wavedashes starts empty.
InitWd ==
    /\ wd_frames \in [1..WdLen -> WdFrames]
    /\ wd_frames[1].state = WAIT
    /\ wd_frames[WdLen].state = WAIT
    /\ wd_i = 0
    /\ wavedash_state = NoneRec
    /\ wavedashes = << >>
    /\ wd_pc = "run"
    /\ wd_error = ""
    /\ OnlyWd

NextWd == WavedashFrame \/ WavedashReturn
SpecWd == InitWd /\ [][NextWd]_vars

TriggerInWindow(frames, i) == \E j \in 0..4 : FrameAt(frames, i - j).trigger

\* C34: a landing at frame i appends exactly one record with frame_index i
\* when an L or R input is found among the frames i-4..i and nothing when
\* none is found, and no record is in the wavedash list twice.
C34_OneRecordPerWavedash ==
    [][(wd_pc = "run" /\ wd_i < Len(wd_frames) /\ IsLanding(wd_frames, wd_i)) =>
          /\ TriggerInWindow(wd_frames, wd_i) =>
                /\ Len(wavedashes') = Len(wavedashes) + 1
                /\ wavedashes'[Len(wavedashes')].frame_index = wd_i
                /\ \A k \in 1..Len(wavedashes) : wavedashes'[k] = wavedashes[k]
          /\ ~TriggerInWindow(wd_frames, wd_i) => wavedashes' = wavedashes
          /\ \A a, b \in 1..Len(wavedashes') : a # b => wavedashes'[a] # wavedashes'[b]]_vars

OnlyTriggerAt(frames, i, j) ==
    /\ FrameAt(frames, i - j).trigger
    /\ \A other \in 0..4 : other # j => ~FrameAt(frames, i - other).trigger

KneeBendBefore(frames, from) ==
    \E k \in 0..4 : FrameAt(frames, from - k) # NoneRec /\ FrameAt(frames, from - k).state = KNEE_BEND

\* C35: the record appended for a landing whose trigger input is j frames
\* back has waveland true exactly when none of the 5 frames counted back
\* from the trigger frame is in KNEE_BEND.
C35_WavelandWithoutKneeBend ==
    [][\A j \in 0..4 :
          (wd_pc = "run" /\ wd_i < Len(wd_frames) /\ IsLanding(wd_frames, wd_i)
             /\ OnlyTriggerAt(wd_frames, wd_i, j)) =>
                /\ Len(wavedashes') = Len(wavedashes) + 1
                /\ wavedashes'[Len(wavedashes')].waveland = ~KneeBendBefore(wd_frames, wd_i - j)]_vars

\* ------------------------------------------------------------------------
\* take_hit_compute for the second player of stats_compute's loop (lines
\* 93-104).  stats_compute runs every pass on the one StatsComputer, and
\* take_hit_compute never assigns take_hit_state before its loop, so the pass
\* starts with what the pass before it left there: None, or the TakeHitData
\* of a hit whose hitlag lasted to the last frame of the game.
LeftoverTakeHit ==
    LET opened == NewTakeHit(1, 1, TRUE)
    IN  [opened EXCEPT
            !.stick_regions_during_hitlag =
                Append(Append(@, StickRegion(<<1, 2>>)), StickRegion(<<1, 2>>)),
            !.hitlag_frames = @ + 2]

InitThSecond ==
    /\ th_version \in ThVersions
    /\ th_knockback_check = TRUE
    /\ th_frames \in [1..ThLen -> ThFrames]
    /\ th_i = 0
    /\ take_hit_state \in {NoneRec, LeftoverTakeHit}
    /\ take_hits = << >>
    /\ th_warnings = << >>
    /\ th_pc = "called"
    /\ th_error = ""
    /\ OnlyTh

NextThSecond == TakeHitBegin \/ TakeHitFrame

SpecThSecond == InitThSecond /\ [][NextThSecond]_vars

\* The player's percent never rises from one frame to the next.
NeverDamaged ==
    \A k \in 0..(Len(th_frames) - 1) :
        ~just_took_damage(th_frames[k + 1].percent,
                          th_frames[PyIdx(k - 1, Len(th_frames)) + 1].percent)

\* C37: the records of a pass do not depend on what an earlier pass left in
\* the computer.  On a new computer a pass for a player who never takes
\* damage runs to the end with an empty list, so the same pass run after
\* another player's pass does so as well.
C37_PassIgnoresEarlierPass ==
    NeverDamaged => (th_pc # "raised" /\ take_hits = << >>)

=============================================================================
